---- MODULE Spec2Model ----
(***************************************************************************)
(* The concurrent probing pipeline of rebecca554owen/scan.                 *)
(*                                                                         *)
(* Two variants of the program are modelled; the variable `prog` selects   *)
(* which one a behaviour runs:                                             *)
(*   "main" : src/main.go        (worker goroutines reading batches)       *)
(*   "pool" : src/unnamed/part_001 (WorkerPool.Submit, one goroutine per   *)
(*            candidate, admission through the p.workers channel)          *)
(* One behaviour is one process running one startScan.                     *)
(***************************************************************************)
EXTENDS Integers, Sequences, FiniteSets, Bags, TLC

\* ------------------------------------------------------------------ bounds
MaxWorkers == 2
MaxCandidates == 2
\* capacity of a worker's batch; src/main.go:761 uses 10, scaled down here
BatchSize == 2
\* most lines of ip.csv
MaxIps == 4
\* most rows with the available status in the detection results
MaxEntries == 3

\* ------------------------------------------------------------------ data
NoResult == [IP |-> "", Models |-> <<>>]

\* The lines of the candidate file (the output of zmap).  A run with nCand
\* candidates reads the prefix of it that holds nCand valid address lines.
FileLines ==
  <<"", "10.0.0.1", "not-an-ip", " 10.0.0.2 ", "999.1.1.1", "10.0.0.3",
    "10.0.0.4", "", "10.0.0.5">>

\* strings.TrimSpace and net.ParseIP(...) != nil on the lines used here
TrimSpace(line) == IF line = " 10.0.0.2 " THEN "10.0.0.2" ELSE line
ParseIP(text) == text \in {"10.0.0.1", "10.0.0.2", "10.0.0.3", "10.0.0.4", "10.0.0.5"}

\* the test of the feeder goroutine: net.ParseIP(strings.TrimSpace(line)) != nil
AnyLine(line) == TRUE
IsCandidate(line) == ParseIP(TrimSpace(line))

\* the addresses the scanner loop sends on ips, in file order
RECURSIVE ValidAddresses(_)
ValidAddresses(lines) ==
  IF lines = <<>> THEN <<>>
  ELSE (IF IsCandidate(Head(lines)) THEN <<TrimSpace(Head(lines))>> ELSE <<>>)
         \o ValidAddresses(Tail(lines))

\* the addresses of the candidate file, and the i-th address sent on ips
Addresses == ValidAddresses(FileLines)
Addr(i) == Addresses[i]

\* catalog documents a host may answer /api/tags with (the "model" fields,
\* in document order): an empty list, or two models listed larger first
Catalogs == { <<>>, <<"llama3:70b", "llama3:8b">> }

\* parseModelSize: text after the last ':' with a trailing 'b' removed, parsed
\* as a float; 0 when there is no ':' or the text does not parse.  Sizes are
\* kept in tenths so that 0.5 stays an integer.
parseModelSize(model) ==
  CASE model = "llama3:70b" -> 700
    [] model = "llama3:8b"  -> 80
    [] model = "qwen:0.5b"  -> 5
    [] OTHER                -> 0

\* sort.Slice with less = parseModelSize(a) < parseModelSize(b).  For fewer
\* than 12 elements sort.Slice is an insertion sort: each element moves left
\* past the elements that are strictly greater.
RECURSIVE InsertSorted(_, _)
InsertSorted(s, m) ==
  IF s = <<>> THEN <<m>>
  ELSE IF parseModelSize(m) < parseModelSize(s[Len(s)])
       THEN Append(InsertSorted(SubSeq(s, 1, Len(s) - 1), m), s[Len(s)])
       ELSE Append(s, m)

RECURSIVE sortModels(_)
sortModels(models) ==
  IF models = <<>> THEN <<>>
  ELSE InsertSorted(sortModels(SubSeq(models, 1, Len(models) - 1)),
                    models[Len(models)])

\* header row of initCSVWriter (the column titles, transliterated)
Headers(noBench) ==
  IF noBench THEN <<"IP", "Model", "Status">>
  ELSE <<"IP", "Model", "Status", "FirstTokenDelay(ms)", "Tokens/s">>

\* fmt.Sprintf("%.0f", d.Seconds()*1000) and fmt.Sprintf("%.1f", tps) on the
\* values the model uses (delay in ms, rate in tenths of a token per second)
FormatMs(ms) == CASE ms = 0 -> "0" [] ms = 120 -> "120" [] OTHER -> "?"
FormatTps(t) == CASE t = 0 -> "0.0" [] t = 50 -> "5.0" [] OTHER -> "?"

\* the record writeCSV builds for one ModelInfo of a ScanResult
Record(ip, model, noBench) ==
  IF noBench THEN <<ip, model.Name, model.Status>>
  ELSE <<ip, model.Name, model.Status,
         FormatMs(model.FirstTokenDelay), FormatTps(model.TokensPerSec)>>

\* ------------------------------------------------------- benchmarkModel
\* most lines of a streamed /api/generate answer
MaxLines == 3

\* A line of the streamed answer, by what benchmarkModel looks at: whether
\* json.Unmarshal accepts it, whether it says "done": true, and whether its
\* "response" fragment is non-empty (a field the code never reads).
Garbage == [ok |-> FALSE, frag |-> FALSE, done |-> FALSE]
TokenLine == [ok |-> TRUE, frag |-> TRUE, done |-> FALSE]
EmptyLine == [ok |-> TRUE, frag |-> FALSE, done |-> FALSE]
DoneLine == [ok |-> TRUE, frag |-> FALSE, done |-> TRUE]
LastTokenLine == [ok |-> TRUE, frag |-> TRUE, done |-> TRUE]
LineKinds == {Garbage, TokenLine, EmptyLine, DoneLine, LastTokenLine}

\* time.Now() when scanner.Scan() returns the i-th line, in ms after start
\* (start is taken before the request is built and sent)
ArrivalMs(i) == 120 + 220 * (i - 1)

\* what client.Do gives benchmarkModel: a transport error, or a status code
\* and the lines of the body
Response(err, code, lines) == [err |-> err, code |-> code, lines |-> lines]
ConnError == Response(TRUE, 0, <<>>)

\* a status text that drops the code
HttpUnknown(code) == "HTTP ?"
\* fmt.Sprintf("HTTP %d", resp.StatusCode)
HttpStatus(code) ==
  CASE code = 404 -> "HTTP 404" [] code = 500 -> "HTTP 500" [] OTHER -> "HTTP ?"

\* the break of the scanner loop: the line decodes and data["done"] is true
NeverStops(line) == FALSE
StopsAt(line) == line.ok /\ line.done

\* the line at which benchmarkModel takes firstToken: the first one scanned
TakesFirstToken(tokenCount, line) == tokenCount = 0

\* the scanner loop of benchmarkModel from line i on; st holds tokenCount,
\* firstToken, lastToken; read is the number of lines scanner.Scan returned
RECURSIVE ScanLines(_, _, _)
ScanLines(lines, i, st) ==
  IF i > Len(lines) THEN st
  ELSE LET st1 == [tokenCount |-> st.tokenCount + 1,
                   firstToken |-> IF TakesFirstToken(st.tokenCount, lines[i])
                                    THEN ArrivalMs(i) ELSE st.firstToken,
                   lastToken |-> ArrivalMs(i),
                   read |-> i]
       IN IF StopsAt(lines[i]) THEN st1 ELSE ScanLines(lines, i + 1, st1)

\* float64(tokenCount) / totalTime.Seconds(), in tenths of a token per
\* second, rounded as "%.1f" prints it
Rate(tokenCount, ms) == (20000 * tokenCount + ms) \div (2 * ms)

NoTiming(status) ==
  [FirstTokenDelay |-> 0, TokensPerSec |-> 0, Status |-> status,
   tokenCount |-> 0, read |-> 0]

\* a benchmark that reports the time the failure took
FailureTimed(status) ==
  [FirstTokenDelay |-> ArrivalMs(1), TokensPerSec |-> 0, Status |-> status,
   tokenCount |-> 0, read |-> 0]
Failure(status) == NoTiming(status)

\* benchmarkModel on the answer resp: (latency in ms, rate, status), with the
\* final tokenCount and the number of lines read.  The status texts of the
\* source are transliterated.
BenchResult(noBench, resp) ==
  IF noBench THEN NoTiming("untested")
  ELSE IF resp.err THEN Failure("connection failed")
  ELSE IF resp.code # 200 THEN Failure(HttpStatus(resp.code))
  ELSE LET st == ScanLines(resp.lines, 1,
                   [tokenCount |-> 0, firstToken |-> 0, lastToken |-> 0,
                    read |-> 0])
       IN IF st.tokenCount = 0 THEN
            [FirstTokenDelay |-> 0, TokensPerSec |-> 0, Status |-> "no response",
             tokenCount |-> 0, read |-> st.read]
          ELSE [FirstTokenDelay |-> st.firstToken,
                TokensPerSec |-> Rate(st.tokenCount, st.lastToken),
                Status |-> "success",
                tokenCount |-> st.tokenCount, read |-> st.read]

\* The network of a scan run is fixed: generation succeeds with the small
\* model (five lines, the last one done) and the request for the large one
\* fails.
NetworkResponse(model) ==
  IF model = "llama3:8b"
    THEN Response(FALSE, 200, <<TokenLine, TokenLine, TokenLine, TokenLine, DoneLine>>)
    ELSE ConnError

\* what benchmarkModel returns for each model a catalog can list
ModelNames == UNION {{c[i] : i \in 1..Len(c)} : c \in Catalogs}
NetworkResults == [m \in ModelNames |-> BenchResult(FALSE, NetworkResponse(m))]

\* the ModelInfo fields benchmarkModel(ip, model) returns
benchmarkModel(ip, model) ==
  [FirstTokenDelay |-> NetworkResults[model].FirstTokenDelay,
   TokensPerSec |-> NetworkResults[model].TokensPerSec,
   Status |-> NetworkResults[model].Status]

VARIABLES
  prog,          \* "main" | "pool"
  maxWorkers,    \* config maxWorkers
  disableBench,  \* config disableBench
  portScanOnly,  \* config portScanOnly
  nCand,         \* number of valid address lines in the candidate file
  mainPc,        \* position of the main goroutine inside startScan
  ctxCancelled,  \* ctx.Done() is closed
  exitStatus,    \* "running" | "exit0" | "exit1" | "panic" (exit status 2)
  csvWriter,     \* "nil" | "open"        (the global *csv.Writer)
  csvFile,       \* "nil" | "open" | "closed"
  csvBuf,        \* records handed to csvWriter.Write and not yet flushed
  csvErr,        \* sticky write error of the underlying bufio.Writer
  fileRows,      \* records that reached the file through csvFile
  busy,          \* goroutines currently inside csvWriter.Flush()
  torn,          \* a record went through csvWriter during a concurrent operation
                 \* on it and came out torn
  sigPc,         \* signal goroutine: "off" | "waiting" | "cancelled" | "exit" |
                 \* "exited" | "gone"
  sigFlushed,    \* the signal goroutine completed csvWriter.Flush()
  emittedAtSignal, \* number of ScanResults sent before the signal (-1: no signal)
  sigAt,         \* where the main goroutine was when the signal arrived:
                 \* "processResults" | "elsewhere" ("": no signal)
  ips,           \* the ips channel of processResults
  ipsClosed,
  feedNext,      \* next candidate line the feeder goroutine will send
  workers,       \* [1..MaxWorkers+1 -> worker record]
  resultPool,    \* bag of pooled ScanResult objects (their Models slices)
  resultsChan,   \* buffered channel of ScanResult values
  resultsClosed,
  rhPc,          \* resultHandler: "off" | "range" | "write" | "done"
  rhRes,         \* the ScanResult resultHandler is writing
  rhIdx,         \* index of the next model of rhRes to write
  emitted,       \* history: ScanResults sent on resultsChan, with the sender's catalog
  handled,       \* per candidate: how often a processBatch iteration took it up
  scanErr,       \* runScanProcess returned an error
  tasks,         \* pool variant: state of the goroutine Submit started per candidate
  submitNext     \* pool variant: next candidate line processResults will submit

\* checkOllamaService (part_003, part_004)
VARIABLES
  ckN,           \* number of lines readFileLines returned for ip.csv
  ckPc,          \* main goroutine: "off" | "send" | "results" | "returned"
  ckNext,        \* index of the next line the send loop puts on ipChan
  ckCancelled,   \* ctx.Done() is closed
  ckIpChan,      \* ipChan, capacity cfg.MaxWorkers
  ckIpClosed,
  ckWorkers,     \* per worker [pc, ip]; pc: "off" | "select" | "probe" | "send" | "done"
  ckResults,     \* resultsChan of checkOllamaService, capacity cfg.MaxWorkers
  ckResClosed,
  ckRead         \* number of results the result loop has received

checkVars == <<ckN, ckPc, ckNext, ckCancelled, ckIpChan, ckIpClosed, ckWorkers,
               ckResults, ckResClosed, ckRead>>

\* one call of benchmarkModel
VARIABLES
  bmResp,        \* what client.Do returns for the request
  bmPc,          \* "off" | "call" | "returned"
  bmRet          \* the values benchmarkModel returned

benchVars == <<bmResp, bmPc, bmRet>>

\* one call of processBatch (main.go), statement by statement
VARIABLES
  pbBatch,       \* the argument ips
  pbPc,          \* "off" | "loop" | "checkPort" | "checkOllama" | "getModels" |
                 \* "models" | "returned"
  pbIdx,         \* index of the address the range loop is at
  pbResult,      \* *result: the object resultPool.Get() returned
  pbModels,      \* the sorted catalog of the host and ...
  pbK,           \* ... the index of the next model of it
  pbCancelled,   \* ctx.Done() is closed
  pbPool,        \* resultPool: bag of the Models slices of the pooled objects
  pbCalls,       \* history: the calls of checkPort, checkOllama, getModels and
                 \* benchmarkModel with what they returned
  pbSent         \* history: the ScanResult values sent on resultsChan

batchVars == <<pbBatch, pbPc, pbIdx, pbResult, pbModels, pbK, pbCancelled,
               pbPool, pbCalls, pbSent>>

\* benchmarkModel(ctx) of part_003 and part_004: the benchmark of the rows of
\* the detection results
VARIABLES
  rb,            \* [n: len(availableResults), pc: main goroutine "off" | "start" |
                 \*  "wait" | "returned", cancelled: ctx.Done() is closed,
                 \*  backup: "none" | "present" | "removed", processed: testsProcessed,
                 \*  chan: resultsChan (part_004), closed: resultsChan (part_004) or
                 \*  done (part_003) is closed]
  rbWorkers,     \* per worker [pc, j]; pc: "off" | "loop" | "bench" | "emit" | "done"
  rbHist         \* history, per index of availableResults: [benched: calls of
                 \* benchmarkSingleModel, rows: rows processResult wrote]

rebenchVars == <<rb, rbWorkers, rbHist>>

\* one call of a function that touches no shared state
VARIABLES
  fnCall         \* [fn: the function, pc: "off" | "call" | "again" | "returned",
                 \*  in: its argument, out: what it returned]

fnVars == <<fnCall>>

\* the tasks processIP of part_000 and resultHandler
VARIABLES
  ipTasks,       \* per task [pc, timedOut: the deadline of its context has passed,
                 \*  arr: the backing array of result.Models (0: nil), probed,
                 \*  found, delivered]; pc: "off" | "sem" | "probe" | "fill" |
                 \*  "send" | "reset" | "done"
  ipMem,         \* [heap: backing array -> the ModelInfo stored in it,
                 \*  pool: the backing arrays of the objects in resultPool]
  ipChan,        \* resultsChan: the ScanResult copies [IP, arr, sent]
  ipRh           \* resultHandler: [pc: "range" | "read", cur, reads: history of
                 \* the records it read, as sent and as seen]

ipVars == <<ipTasks, ipMem, ipChan, ipRh>>

\* the variables of the other programs and functions; no step of a scan run
\* touches them
asideVars == <<checkVars, benchVars, batchVars, rebenchVars, fnVars, ipVars>>

scanVars == <<prog, maxWorkers, disableBench, portScanOnly, nCand, mainPc,
          ctxCancelled, exitStatus, csvWriter, csvFile, csvBuf, csvErr,
          fileRows, busy, torn, sigPc, sigFlushed, emittedAtSignal, sigAt,
          ips, ipsClosed, feedNext, workers, resultPool, resultsChan,
          resultsClosed, rhPc, rhRes, rhIdx, emitted, handled, scanErr,
          tasks, submitNext>>

vars == <<scanVars, asideVars>>

cfgVars == <<prog, maxWorkers, disableBench, portScanOnly, nCand, asideVars>>
csvVars == <<csvWriter, csvFile, csvBuf, csvErr, fileRows, busy, torn>>
sigVars == <<sigPc, sigFlushed, emittedAtSignal, sigAt>>
feedVars == <<ips, ipsClosed, feedNext>>
rhVars == <<rhPc, rhRes, rhIdx>>
poolVars == <<tasks, submitNext>>

Running == exitStatus = "running"

IdleWorker == [pc |-> "off", batch |-> <<>>, idx |-> 1, last |-> FALSE]

WorkerIds == 1..(MaxWorkers + 1)
CandIds == 1..MaxCandidates

\* The process ends with `status` (os.Exit, return from main, or a panic):
\* every goroutine is gone and with it all memory, the unflushed buffer
\* included; the file and the history variables stay.  `sig` is "exited"
\* when the signal goroutine ended the process, "gone" otherwise.
Halt(status, sig) ==
  /\ exitStatus' = status
  /\ mainPc' = "exited"
  /\ sigPc' = sig
  /\ ips' = <<>> /\ ipsClosed' = FALSE /\ feedNext' = 0
  /\ workers' = [w \in WorkerIds |-> IdleWorker]
  /\ resultPool' = EmptyBag
  /\ resultsChan' = <<>> /\ resultsClosed' = FALSE
  /\ rhPc' = "off" /\ rhRes' = NoResult /\ rhIdx' = 1
  /\ csvBuf' = <<>> /\ busy' = {}
  /\ tasks' = [c \in CandIds |-> "unsubmitted"] /\ submitNext' = 0
  /\ handled' = [c \in CandIds |-> 0]
  /\ UNCHANGED <<cfgVars, ctxCancelled, csvWriter, csvFile, csvErr, fileRows,
                 torn, sigFlushed, emittedAtSignal, sigAt, emitted, scanErr>>

\* the state of the scan program before startScan runs
ScanInit ==
  /\ mainPc = "startScan"
  /\ ctxCancelled = FALSE
  /\ exitStatus = "running"
  /\ csvWriter = "nil"
  /\ csvFile = "nil"
  /\ csvBuf = <<>>
  /\ csvErr = FALSE
  /\ fileRows = <<>>
  /\ busy = {}
  /\ torn = FALSE
  /\ sigPc = "off"
  /\ sigFlushed = FALSE
  /\ emittedAtSignal = -1
  /\ sigAt = ""
  /\ ips = <<>>
  /\ ipsClosed = FALSE
  /\ feedNext = 0
  /\ workers = [w \in WorkerIds |-> IdleWorker]
  /\ resultPool = EmptyBag
  /\ resultsChan = <<>>
  /\ resultsClosed = FALSE
  /\ rhPc = "off"
  /\ rhRes = NoResult
  /\ rhIdx = 1
  /\ emitted = <<>>
  /\ handled = [c \in CandIds |-> 0]
  /\ scanErr = FALSE
  /\ tasks = [c \in CandIds |-> "unsubmitted"]
  /\ submitNext = 0

\* checkOllamaService has not been called
CheckIdle ==
  /\ ckN = 0 /\ ckPc = "off" /\ ckNext = 0 /\ ckCancelled = FALSE
  /\ ckIpChan = <<>> /\ ckIpClosed = FALSE
  /\ ckWorkers = [w \in 1..MaxWorkers |-> [pc |-> "off", ip |-> 0]]
  /\ ckResults = <<>> /\ ckResClosed = FALSE /\ ckRead = 0

\* benchmarkModel has not been called
BenchIdle ==
  bmResp = ConnError /\ bmPc = "off" /\ bmRet = NoTiming("")

\* processBatch has not been called
BatchIdle ==
  /\ pbBatch = <<>> /\ pbPc = "off" /\ pbIdx = 0 /\ pbResult = NoResult
  /\ pbModels = <<>> /\ pbK = 0 /\ pbCancelled = FALSE
  /\ pbPool = EmptyBag /\ pbCalls = <<>> /\ pbSent = <<>>

\* benchmarkModel(ctx) has not been called
RebenchOff ==
  [n |-> 0, pc |-> "off", cancelled |-> FALSE, backup |-> "none", processed |-> 0,
   chan |-> <<>>, closed |-> FALSE]

RebenchIdle ==
  /\ rb = RebenchOff
  /\ rbWorkers = [w \in 1..MaxWorkers |-> [pc |-> "off", j |-> 0]]
  /\ rbHist = [i \in 0..(MaxEntries - 1) |-> [benched |-> 0, rows |-> 0]]

\* no function is being called on its own
FnIdle == fnCall = [fn |-> "", pc |-> "off"]

\* runtime.NumCPU()*2 on a machine with one CPU: the capacity of semaphore
SemCap == 2
\* tasks of processIP: one more than semaphore admits
TaskIds == 1..(SemCap + 1)

NoTask == [pc |-> "off", timedOut |-> FALSE, arr |-> 0, probed |-> FALSE,
           found |-> FALSE, delivered |-> FALSE]

\* processResults of part_000 has not been called
IpIdle ==
  /\ ipTasks = [c \in TaskIds |-> NoTask]
  /\ ipMem = [heap |-> [a \in TaskIds |-> ""], pool |-> {}]
  /\ ipChan = <<>>
  /\ ipRh = [pc |-> "off", cur |-> 0, reads |-> <<>>]

\* none of the other programs and functions has been called
SideIdle == BenchIdle /\ BatchIdle /\ RebenchIdle /\ FnIdle /\ IpIdle

AsideIdle == CheckIdle /\ SideIdle

Init ==
  /\ prog \in {"main", "pool"}
  /\ maxWorkers \in 1..MaxWorkers
  /\ disableBench \in BOOLEAN
  /\ portScanOnly \in BOOLEAN
  /\ nCand \in 0..MaxCandidates
  /\ ScanInit
  /\ AsideIdle

\* ------------------------------------------------------------ csv.Writer
\* records initCSVWriter hands to the new csv.Writer
NoHeaderRecords(noBench) == <<>>
InitialRecords(noBench) == <<Headers(noBench)>>

\* Nothing in the source serialises the operations on csvWriter: a Flush or
\* a Write may run while another goroutine is inside Flush or inside Write.
\* The goroutines inside an operation on csvWriter: resultHandler while it
\* executes the Write of writeCSV, and those inside Flush.
OnCsvWriter == busy \cup (IF rhPc = "write" THEN {"rh"} ELSE {})

\* csv.Writer.Write(record) completing in goroutine g.  bufio keeps the
\* record in its buffer; after a failed write the error is sticky and nothing
\* is buffered.  A Write that ran while another goroutine was inside Flush is
\* a data race on the buffer: the record may or may not come out torn.
Write(g, record) ==
  /\ csvBuf' = IF csvErr THEN csvBuf ELSE Append(csvBuf, record)
  /\ torn' \in (IF OnCsvWriter \ {g} # {} THEN {torn, TRUE} ELSE {torn})
  /\ UNCHANGED <<csvWriter, csvFile, csvErr, fileRows, busy>>

\* the effect of csv.Writer.Flush(): the buffered bytes go to csvFile;
\* writing to a closed file fails and leaves the sticky error.  A Flush that
\* runs while another goroutine is inside Write or Flush races on the buffer.
Flush(g) ==
  /\ IF csvBuf = <<>> \/ csvErr
       THEN UNCHANGED <<csvBuf, csvErr, fileRows>>
       ELSE IF csvFile = "open"
              THEN /\ fileRows' = fileRows \o csvBuf
                   /\ csvBuf' = <<>>
                   /\ UNCHANGED csvErr
              ELSE /\ csvErr' = TRUE
                   /\ UNCHANGED <<csvBuf, fileRows>>
  /\ torn' \in (IF OnCsvWriter \ {g} # {} THEN {torn, TRUE} ELSE {torn})
  /\ UNCHANGED <<csvWriter, csvFile>>

\* ------------------------------------------------------------ startScan
\* initCSVWriter: os.Create, csv.NewWriter, Write(headers); on a Create error
\* it prints and returns with csvFile = nil and csvWriter untouched
InitCSVWriter(created) ==
  IF created
    THEN /\ csvFile' = "open"
         /\ fileRows' = <<>>
         /\ csvWriter' = "open"
         /\ csvBuf' = InitialRecords(disableBench)
    ELSE /\ csvFile' = "nil"
         /\ UNCHANGED <<fileRows, csvWriter, csvBuf>>

\* setupSignalHandler: signal.Notify and the goroutine blocked on <-sigCh
SetupSignalHandler == sigPc' = "waiting"

\* startScan up to the call of runScanProcess
StartScan ==
  /\ Running /\ mainPc = "startScan"
  /\ \E created \in BOOLEAN : InitCSVWriter(created)
  /\ SetupSignalHandler
  /\ mainPc' = "execZmap"
  /\ UNCHANGED <<cfgVars, ctxCancelled, exitStatus, csvErr, busy, torn,
                 sigFlushed, emittedAtSignal, sigAt, feedVars, workers, resultPool,
                 resultsChan, resultsClosed, rhVars, emitted, handled, scanErr, poolVars>>

\* runScanProcess: execZmap; its error is returned at once.  part_001 goes
\* straight on to processResults, main.go counts the addresses first.
ExecZmap ==
  /\ Running /\ mainPc = "execZmap"
  /\ \E ok \in BOOLEAN :
       IF ~ok THEN mainPc' = "return" /\ scanErr' = TRUE
       ELSE /\ scanErr' = FALSE
            /\ mainPc' = IF prog = "main" THEN "countIPs"
                         ELSE IF ~portScanOnly THEN "processResults" ELSE "return"
  /\ UNCHANGED <<cfgVars, ctxCancelled, exitStatus, csvVars, sigVars, feedVars,
                 workers, resultPool, resultsChan, resultsClosed, rhVars,
                 emitted, handled, poolVars>>

\* runScanProcess of main.go: countIPs, the ips <= 0 error, the portScanOnly test
CountIPs ==
  /\ Running /\ prog = "main" /\ mainPc = "countIPs"
  /\ IF nCand <= 0 THEN mainPc' = "return" /\ scanErr' = TRUE
     ELSE /\ scanErr' = FALSE
          /\ mainPc' = IF ~portScanOnly THEN "processResults" ELSE "return"
  /\ UNCHANGED <<cfgVars, ctxCancelled, exitStatus, csvVars, sigVars, feedVars,
                 workers, resultPool, resultsChan, resultsClosed, rhVars,
                 emitted, handled, poolVars>>

\* number of worker goroutines processResults starts: for i := 0; i < maxWorkers
WorkerCountOffByOne(mw) == mw + 1
WorkerCount(mw) == mw

\* capacity of ips (main.go:685) and of resultsChan (main.go:122, part_001:189)
IpsCap == 2 * maxWorkers
ResultsCap == IF prog = "main" THEN 2 * maxWorkers ELSE maxWorkers

\* processResults of main.go up to wg.Wait(): the workers, resultHandler and
\* the feeder goroutine are started
ProcessResults ==
  /\ Running /\ prog = "main" /\ mainPc = "processResults"
  /\ workers' = [w \in WorkerIds |->
                   IF w <= WorkerCount(maxWorkers)
                     THEN [IdleWorker EXCEPT !.pc = "range"] ELSE workers[w]]
  /\ rhPc' = "range"
  /\ feedNext' = 1
  /\ mainPc' = "wait"
  /\ UNCHANGED <<cfgVars, ctxCancelled, exitStatus, csvVars, sigVars, ips,
                 ipsClosed, resultPool, resultsChan, resultsClosed, rhRes,
                 rhIdx, emitted, handled, scanErr, poolVars>>

\* the feeder goroutine: one valid line sent on ips (blocks while ips is full)
Feed ==
  /\ Running /\ prog = "main"
  /\ feedNext \in 1..nCand /\ Len(ips) < IpsCap
  /\ ips' = Append(ips, feedNext)
  /\ feedNext' = feedNext + 1
  /\ UNCHANGED <<cfgVars, mainPc, ctxCancelled, exitStatus, csvVars, sigVars,
                 ipsClosed, workers, resultPool, resultsChan, resultsClosed,
                 rhVars, emitted, handled, scanErr, poolVars>>

\* the feeder goroutine leaves its loop when scanner.Scan() returns false at
\* the end of the file, and the deferred close(ips) runs
NeverClosed(next, n) == FALSE
ScanEnded(next, n) == next = n + 1

FeedClose ==
  /\ Running /\ prog = "main"
  /\ ScanEnded(feedNext, nCand) /\ ~ipsClosed
  /\ ipsClosed' = TRUE
  /\ UNCHANGED <<cfgVars, mainPc, ctxCancelled, exitStatus, csvVars, sigVars,
                 ips, feedNext, workers, resultPool, resultsChan, resultsClosed,
                 rhVars, emitted, handled, scanErr, poolVars>>

\* ------------------------------------------------------------ worker
otherMain == <<cfgVars, mainPc, ctxCancelled, csvVars, sigVars, feedNext,
               rhVars, scanErr, poolVars>>

\* worker: for ip := range ips { batch = append(batch, ip); if len(batch) == 10 ...
\* The goroutines running worker() are interchangeable: of several in the same
\* local state the lowest-numbered one takes the step.
First(w) == \A v \in WorkerIds : v < w => workers[v] # workers[w]

WorkerRecv(w) ==
  /\ Running /\ First(w) /\ workers[w].pc = "range" /\ ips # <<>>
  /\ LET b == Append(workers[w].batch, Head(ips)) IN
       workers' = [workers EXCEPT ![w].batch = b,
                     ![w].idx = 1,
                     ![w].pc = IF Len(b) = BatchSize THEN "batch" ELSE "range"]
  /\ ips' = Tail(ips)
  /\ UNCHANGED <<otherMain, exitStatus, ipsClosed, resultPool, resultsChan,
                 resultsClosed, emitted, handled>>

\* worker: the range loop ends on the closed, drained channel; a non-empty
\* partial batch is processed, then wg.Done()
WorkerEnd(w) ==
  /\ Running /\ First(w) /\ workers[w].pc = "range" /\ ips = <<>> /\ ipsClosed
  /\ workers' = [workers EXCEPT ![w].idx = 1, ![w].last = TRUE,
                   ![w].pc = IF workers[w].batch # <<>> THEN "batch" ELSE "done"]
  /\ UNCHANGED <<otherMain, exitStatus, ips, ipsClosed, resultPool,
                 resultsChan, resultsClosed, emitted, handled>>

\* worker after processBatch returned: batch = batch[:0]
BatchKept(b) == b
BatchAfterProcess(b) == <<>>

\* processBatch: the head of one loop iteration.  The loop ends after the
\* last address or, on ctx.Done(), with a return; otherwise the address
\* enters the pipeline.
BatchNext(w) ==
  /\ Running /\ First(w) /\ workers[w].pc = "batch"
  /\ IF workers[w].idx > Len(workers[w].batch) \/ ctxCancelled
       THEN /\ workers' = [workers EXCEPT
                             ![w].batch = BatchAfterProcess(workers[w].batch),
                             ![w].pc = IF workers[w].last THEN "done" ELSE "range"]
            /\ UNCHANGED handled
       ELSE /\ workers' = [workers EXCEPT ![w].pc = "probe"]
            /\ handled' = [handled EXCEPT ![workers[w].batch[workers[w].idx]] = @ + 1]
  /\ UNCHANGED <<otherMain, exitStatus, ips, ipsClosed, resultPool,
                 resultsChan, resultsClosed, emitted>>

\* resultPool.Get(): a pooled object (with whatever Models it was put back
\* with) or, when the pool has none or has dropped it, a new &ScanResult{}
PoolChoices ==
  {[fresh |-> TRUE, models |-> <<>>]}
    \cup {[fresh |-> FALSE, models |-> m] : m \in BagToSet(resultPool)}

PoolTake(g) == IF g.fresh THEN resultPool ELSE resultPool (-) SetToBag({g.models})

PortScanInfo(ip) ==
  [Name |-> "PORT_SCAN", FirstTokenDelay |-> 0, TokensPerSec |-> 0,
   Status |-> "open", for |-> ip]

\* what checkOllama and getModels can report for a host: no Ollama marker,
\* or the decoded catalog (nil on a transport error, a non-200 status or an
\* undecodable body)
ServiceAnswers ==
  {[ollama |-> FALSE, models |-> <<>>]}
    \cup {[ollama |-> TRUE, models |-> c] : c \in Catalogs}

\* `len(models) > 0` in processBatch
AlwaysSends(models) == TRUE
HasModels(models) == Len(models) > 0

\* the ModelInfo values the loop `for _, model := range models` builds:
\* benchmarkModel's result for each model, or the fixed status when
\* disableBench is set
ModelInfos(ip, models) ==
  [i \in 1..Len(models) |->
     LET o == IF disableBench
                THEN [FirstTokenDelay |-> 0, TokensPerSec |-> 0, Status |-> "found"]
                ELSE benchmarkModel(ip, models[i]) IN
     [Name |-> models[i], FirstTokenDelay |-> o.FirstTokenDelay,
      TokensPerSec |-> o.TokensPerSec, Status |-> o.Status, for |-> ip]]

\* processBatch: `resultsChan <- *result` (blocks while the channel is full,
\* panics on a closed channel), then resultPool.Put(result) and the next
\* address of the batch; `pool` is the pool after the Get
SendResult(w, res, cat, pool) ==
  IF resultsClosed
    THEN Halt("panic", "gone")
    ELSE /\ Len(resultsChan) < ResultsCap
         /\ resultsChan' = Append(resultsChan, res)
         /\ emitted' = Append(emitted, [IP |-> res.IP, Models |-> res.Models,
                                        cat |-> cat])
         /\ resultPool' = pool (+) SetToBag({res.Models})
         /\ workers' = [workers EXCEPT ![w].idx = @ + 1, ![w].pc = "batch"]
         /\ UNCHANGED <<otherMain, exitStatus, ips, ipsClosed, resultsClosed,
                        handled>>

\* processBatch: the pipeline of one address: checkPort; when the port is
\* open result := resultPool.Get(), result.IP = ip; then either the PORT_SCAN
\* entry (portScanOnly) or checkOllama, getModels, sortModels and one
\* appended ModelInfo per model; then the send and the Put.  Without a model
\* list the object goes back to the pool as it is.  The steps before the send
\* touch nothing another goroutine reads, so the step is taken when the send
\* gets through.
Probe(w) ==
  /\ Running /\ First(w) /\ workers[w].pc = "probe"
  /\ LET ip == Addr(workers[w].batch[workers[w].idx]) IN
     \E open \in BOOLEAN :
       IF ~open
         THEN /\ workers' = [workers EXCEPT ![w].idx = @ + 1, ![w].pc = "batch"]
              /\ UNCHANGED <<otherMain, exitStatus, ips, ipsClosed, resultPool,
                             resultsChan, resultsClosed, emitted, handled>>
         ELSE \E g \in PoolChoices :
           IF portScanOnly
             THEN SendResult(w, [IP |-> ip,
                                 Models |-> Append(g.models, PortScanInfo(ip))],
                             <<"PORT_SCAN">>, PoolTake(g))
             ELSE \E r \in ServiceAnswers :
               IF ~r.ollama \/ ~HasModels(r.models)
                 THEN /\ workers' = [workers EXCEPT ![w].idx = @ + 1,
                                       ![w].pc = "batch"]
                      /\ resultPool' = PoolTake(g) (+) SetToBag({g.models})
                      /\ UNCHANGED <<otherMain, exitStatus, ips, ipsClosed,
                                     resultsChan, resultsClosed, emitted, handled>>
                 ELSE SendResult(w, [IP |-> ip,
                                     Models |-> g.models \o
                                       ModelInfos(ip, sortModels(r.models))],
                                 sortModels(r.models), PoolTake(g))

\* ------------------------------------------------------------ WorkerPool (part_001)
Holding(t) == t \in {"running", "send", "release"}
SlotsHeld == Cardinality({c \in CandIds : Holding(tasks[c])})

\* `case p.workers <- struct{}{}` is ready while the channel of capacity
\* `size` is not full
SlotFreeAlways(held, size) == TRUE
SlotFree(held, size) == held < size

otherPool == <<cfgVars, ctxCancelled, csvVars, sigVars, feedVars, workers,
               resultPool, scanErr>>

\* processResults of part_001 up to the scan loop: NewWorkerPool, go resultHandler()
PoolProcessResults ==
  /\ Running /\ prog = "pool" /\ mainPc = "processResults"
  /\ rhPc' = "range"
  /\ submitNext' = 1
  /\ mainPc' = "submit"
  /\ UNCHANGED <<otherPool, exitStatus, resultsChan, resultsClosed, rhRes, rhIdx,
                 emitted, handled, tasks>>

\* processResults of part_001: pool.Submit for the next valid line:
\* wg.Add(1) and a goroutine that starts at the select
Submit ==
  /\ Running /\ prog = "pool" /\ mainPc = "submit" /\ submitNext \in 1..nCand
  /\ tasks' = [tasks EXCEPT ![submitNext] = "select"]
  /\ submitNext' = submitNext + 1
  /\ UNCHANGED <<otherPool, mainPc, exitStatus, resultsChan, resultsClosed,
                 rhVars, emitted, handled>>

\* Submit's goroutine: case p.workers <- struct{}{}: the task starts
TaskAcquire(c) ==
  /\ Running /\ tasks[c] = "select" /\ SlotFree(SlotsHeld, maxWorkers)
  /\ tasks' = [tasks EXCEPT ![c] = "running"]
  /\ UNCHANGED <<otherPool, mainPc, exitStatus, resultsChan, resultsClosed,
                 rhVars, emitted, handled, submitNext>>

\* Submit's goroutine: case <-ctx.Done(): return (deferred wg.Done())
TaskCancelled(c) ==
  /\ Running /\ tasks[c] = "select" /\ ctxCancelled
  /\ tasks' = [tasks EXCEPT ![c] = "done"]
  /\ UNCHANGED <<otherPool, mainPc, exitStatus, resultsChan, resultsClosed,
                 rhVars, emitted, handled, submitNext>>

\* task(): processIP(ctx, ip) probing the host; it ends with or without a
\* ScanResult to send
TaskProbe(c) ==
  /\ Running /\ tasks[c] = "running"
  /\ \E found \in BOOLEAN :
       tasks' = [tasks EXCEPT ![c] = IF found THEN "send" ELSE "release"]
  /\ UNCHANGED <<otherPool, mainPc, exitStatus, resultsChan, resultsClosed,
                 rhVars, emitted, handled, submitNext>>

\* task(): processIP sends the host's ScanResult on resultsChan
TaskSend(c) ==
  /\ Running /\ tasks[c] = "send"
  /\ IF resultsClosed
       THEN Halt("panic", "gone")
       ELSE /\ Len(resultsChan) < ResultsCap
            /\ \E cat \in {k \in Catalogs : k # <<>>} :
                 LET ms == [i \in 1..Len(cat) |->
                              [Name |-> sortModels(cat)[i], FirstTokenDelay |-> 0,
                               TokensPerSec |-> 0, Status |-> "Available",
                               for |-> Addr(c)]] IN
                 /\ resultsChan' = Append(resultsChan, [IP |-> Addr(c), Models |-> ms])
                 /\ emitted' = Append(emitted, [IP |-> Addr(c), Models |-> ms,
                                                cat |-> sortModels(cat)])
            /\ tasks' = [tasks EXCEPT ![c] = "release"]
            /\ UNCHANGED <<otherPool, mainPc, exitStatus, resultsClosed, rhVars,
                           handled, submitNext>>

\* Submit's goroutine after task() returned: <-p.workers, deferred wg.Done()
TaskRelease(c) ==
  /\ Running /\ tasks[c] = "release"
  /\ tasks' = [tasks EXCEPT ![c] = "done"]
  /\ UNCHANGED <<otherPool, mainPc, exitStatus, resultsChan, resultsClosed,
                 rhVars, emitted, handled, submitNext>>

\* ------------------------------------------------------------ end of processResults
\* wg.Wait() (main.go) / pool.Wait() after the scan loop (part_001) returns
\* once every started goroutine has called Done
AllDone ==
  IF prog = "main"
    THEN mainPc = "wait" /\ \A w \in WorkerIds : workers[w].pc \in {"off", "done"}
    ELSE /\ mainPc = "submit" /\ submitNext = nCand + 1
         /\ \A c \in CandIds : tasks[c] \in {"unsubmitted", "done"}

\* processResults: wg.Wait() returned; close(resultsChan) (closing a closed
\* channel panics)
CloseResults ==
  /\ Running /\ AllDone
  /\ IF resultsClosed
       THEN Halt("panic", "gone")
       ELSE /\ resultsClosed' = TRUE
            /\ mainPc' = "flush"
            /\ UNCHANGED <<cfgVars, ctxCancelled, exitStatus, csvVars, sigVars,
                           feedVars, workers, resultPool, resultsChan, rhVars,
                           emitted, handled, scanErr, poolVars>>

\* processResults: csvWriter.Flush() is entered (nil dereference without a writer)
MainFlushBegin ==
  /\ Running /\ mainPc = "flush"
  /\ IF csvWriter = "nil"
       THEN Halt("panic", "gone")
       ELSE /\ busy' = busy \cup {"main"}
            /\ mainPc' = "inFlush"
            /\ UNCHANGED <<cfgVars, ctxCancelled, exitStatus, csvWriter, csvFile,
                           csvBuf, csvErr, fileRows, torn, sigVars, feedVars,
                           workers, resultPool, resultsChan, resultsClosed,
                           rhVars, emitted, handled, scanErr, poolVars>>

\* processResults: csvWriter.Flush() completes, processResults returns nil
MainFlushEnd ==
  /\ Running /\ mainPc = "inFlush"
  /\ Flush("main")
  /\ busy' = busy \ {"main"}
  /\ mainPc' = "return"
  /\ UNCHANGED <<cfgVars, ctxCancelled, exitStatus, sigVars, feedVars, workers,
                 resultPool, resultsChan, resultsClosed, rhVars, emitted, handled,
                 scanErr, poolVars>>

\* startScan returns: the deferred csvFile.Close() (a no-op on a nil file),
\* then the deferred cancel()
Return ==
  /\ Running /\ mainPc = "return"
  /\ csvFile' = IF csvFile = "open" THEN "closed" ELSE csvFile
  /\ ctxCancelled' = TRUE
  /\ mainPc' = "returned"
  /\ UNCHANGED <<cfgVars, exitStatus, csvWriter, csvBuf, csvErr, fileRows, busy,
                 torn, sigVars, feedVars, workers, resultPool, resultsChan,
                 resultsClosed, rhVars, emitted, handled, scanErr, poolVars>>

\* the process ends after the run: main.go leaves the menu loop with choice 0
\* (status 0); main of part_001 calls os.Exit(1) when startScan failed and
\* returns otherwise
ProcessExit ==
  /\ Running /\ mainPc = "returned"
  /\ Halt(IF prog = "pool" /\ scanErr THEN "exit1" ELSE "exit0", "gone")

\* ------------------------------------------------------------ resultHandler
otherRh == <<cfgVars, mainPc, ctxCancelled, sigVars, feedVars, workers,
             resultPool, resultsClosed, emitted, handled, scanErr, poolVars>>

\* resultHandler: for res := range resultsChan (printResult writes to stdout only)
RhRecv ==
  /\ Running /\ rhPc = "range"
  /\ IF resultsChan # <<>>
       THEN /\ rhRes' = Head(resultsChan)
            /\ resultsChan' = Tail(resultsChan)
            /\ rhIdx' = 1
            /\ rhPc' = IF Head(resultsChan).Models = <<>> THEN "range" ELSE "write"
       ELSE /\ resultsClosed
            /\ rhPc' = "done"
            /\ UNCHANGED <<rhRes, rhIdx, resultsChan>>
  /\ UNCHANGED <<otherRh, exitStatus, csvVars>>

\* writeCSV: csvWriter.Write(record) for the next model of res (a nil
\* dereference without a writer); after the last one, back to the range loop
RhWrite ==
  /\ Running /\ rhPc = "write"
  /\ IF csvWriter = "nil"
       THEN Halt("panic", "gone")
       ELSE /\ Write("rh", Record(rhRes.IP, rhRes.Models[rhIdx], disableBench))
            /\ rhIdx' = rhIdx + 1
            /\ rhPc' = IF rhIdx = Len(rhRes.Models) THEN "range" ELSE "write"
            /\ UNCHANGED <<otherRh, exitStatus, resultsChan, rhRes>>

\* ------------------------------------------------------------ signal goroutine
otherSig == <<cfgVars, mainPc, feedVars, workers, resultPool, resultsChan,
              resultsClosed, rhVars, emitted, handled, scanErr, poolVars>>

\* SIGINT or SIGTERM arrives: <-sigCh returns and cancel() is called
Signal ==
  /\ Running /\ sigPc = "waiting"
  /\ ctxCancelled' = TRUE
  /\ sigPc' = "cancelled"
  /\ emittedAtSignal' = Len(emitted)
  /\ sigAt' = IF mainPc \in {"wait", "submit", "flush", "inFlush"}
                THEN "processResults" ELSE "elsewhere"
  /\ UNCHANGED <<otherSig, exitStatus, csvVars, sigFlushed>>

\* the handler after cancel(): `if csvWriter != nil { csvWriter.Flush() }`
SigSkipFlush(writer) == FALSE
SigFlushes(writer) == writer # "nil"

\* signal goroutine: the conditional csvWriter.Flush(); os.Exit(1) is next
SigFlush ==
  /\ Running /\ sigPc = "cancelled"
  /\ IF SigFlushes(csvWriter)
       THEN Flush("sig") /\ sigFlushed' = TRUE
       ELSE UNCHANGED <<csvWriter, csvFile, csvBuf, csvErr, fileRows, torn, sigFlushed>>
  /\ sigPc' = "exit"
  /\ UNCHANGED <<otherSig, ctxCancelled, exitStatus, busy, emittedAtSignal, sigAt>>

\* signal goroutine: os.Exit(1)
SigExit ==
  /\ Running /\ sigPc = "exit"
  /\ Halt("exit1", "exited")

\* ------------------------------------------------------------ specification
Next ==
  \/ StartScan
  \/ ExecZmap
  \/ CountIPs
  \/ ProcessResults
  \/ Feed
  \/ FeedClose
  \/ \E w \in WorkerIds : WorkerRecv(w)
  \/ \E w \in WorkerIds : WorkerEnd(w)
  \/ \E w \in WorkerIds : BatchNext(w)
  \/ \E w \in WorkerIds : Probe(w)
  \/ PoolProcessResults
  \/ Submit
  \/ \E c \in CandIds : TaskAcquire(c)
  \/ \E c \in CandIds : TaskCancelled(c)
  \/ \E c \in CandIds : TaskProbe(c)
  \/ \E c \in CandIds : TaskSend(c)
  \/ \E c \in CandIds : TaskRelease(c)
  \/ CloseResults
  \/ MainFlushBegin
  \/ MainFlushEnd
  \/ Return
  \/ ProcessExit
  \/ RhRecv
  \/ RhWrite
  \/ Signal
  \/ SigFlush
  \/ SigExit

Spec == Init /\ [][Next]_vars

\* The processResults run of main.go under the Go scheduler: every goroutine
\* that can take a step eventually takes one.  Nothing is assumed about the
\* arrival of a signal.
InitMain == Init /\ prog = "main"

WorkerStep(w) == WorkerRecv(w) \/ WorkerEnd(w) \/ BatchNext(w) \/ Probe(w)
FeederStep == Feed \/ FeedClose
MainStep ==
  \/ StartScan \/ ExecZmap \/ CountIPs \/ ProcessResults \/ CloseResults
  \/ MainFlushBegin \/ MainFlushEnd \/ Return \/ ProcessExit
HandlerStep == RhRecv \/ RhWrite
SignalStep == Signal \/ SigFlush \/ SigExit

NextMain ==
  \/ MainStep
  \/ FeederStep
  \/ \E w \in WorkerIds : WorkerStep(w)
  \/ HandlerStep
  \/ SignalStep

FairSpec ==
  /\ InitMain /\ [][NextMain]_vars
  /\ WF_vars(MainStep)
  /\ WF_vars(FeederStep)
  /\ \A w \in WorkerIds : WF_vars(WorkerStep(w))
  /\ WF_vars(HandlerStep)
  /\ WF_vars(SigFlush \/ SigExit)

\* ------------------------------------------------------------ checkOllamaService
\* checkOllamaService of part_004 (part_003 has the same goroutines and
\* channels).  initHttpClient succeeds and every network call returns.
notCheck == <<scanVars, benchVars, batchVars, rebenchVars, fnVars, ipVars>>

\* readFileLines: strings.Split(strings.TrimSpace(content), "\n") has at least
\* one element
InitCheck ==
  /\ prog = "check" /\ maxWorkers \in 1..MaxWorkers
  /\ disableBench = FALSE /\ portScanOnly = FALSE /\ nCand = 0
  /\ ScanInit
  /\ ckN \in 1..MaxIps
  /\ ckPc = "off" /\ ckNext = 0 /\ ckCancelled = FALSE
  /\ ckIpChan = <<>> /\ ckIpClosed = FALSE
  /\ ckWorkers = [w \in 1..MaxWorkers |-> [pc |-> "off", ip |-> 0]]
  /\ ckResults = <<>> /\ ckResClosed = FALSE /\ ckRead = 0
  /\ SideIdle

\* the channels are made, cfg.MaxWorkers workers and the goroutine that
\* closes resultsChan are started, the send loop begins
CkStart ==
  /\ ckPc = "off"
  /\ ckWorkers' = [w \in 1..MaxWorkers |->
                     IF w <= maxWorkers THEN [pc |-> "select", ip |-> 0]
                     ELSE ckWorkers[w]]
  /\ ckPc' = "send" /\ ckNext' = 1
  /\ UNCHANGED <<notCheck, ckN, ckCancelled, ckIpChan, ckIpClosed, ckResults,
                 ckResClosed, ckRead>>

\* send loop: `case ipChan <- ip` (blocks while ipChan is full)
CkSend ==
  /\ ckPc = "send" /\ ckNext <= ckN /\ Len(ckIpChan) < maxWorkers
  /\ ckIpChan' = Append(ckIpChan, ckNext)
  /\ ckNext' = ckNext + 1
  /\ UNCHANGED <<notCheck, ckN, ckPc, ckCancelled, ckIpClosed, ckWorkers,
                 ckResults, ckResClosed, ckRead>>

\* after the send loop: close(ipChan); the result loop begins
CkCloseIps ==
  /\ ckPc = "send" /\ ckNext = ckN + 1
  /\ ckIpClosed' = TRUE
  /\ ckPc' = "results"
  /\ UNCHANGED <<notCheck, ckN, ckNext, ckCancelled, ckIpChan, ckWorkers,
                 ckResults, ckResClosed, ckRead>>

\* `case <-ctx.Done(): return` of the send loop and of the result loop
CkMainCancelled ==
  /\ ckCancelled
  /\ (ckPc = "send" /\ ckNext <= ckN) \/ ckPc = "results"
  /\ ckPc' = "returned"
  /\ UNCHANGED <<notCheck, ckN, ckNext, ckCancelled, ckIpChan, ckIpClosed,
                 ckWorkers, ckResults, ckResClosed, ckRead>>

\* result loop: a result is received from resultsChan
CkRecvResult ==
  /\ ckPc = "results" /\ ckResults # <<>>
  /\ ckResults' = Tail(ckResults)
  /\ ckRead' = ckRead + 1
  /\ UNCHANGED <<notCheck, ckN, ckPc, ckNext, ckCancelled, ckIpChan, ckIpClosed,
                 ckWorkers, ckResClosed>>

\* result loop: resultsChan is closed and drained, the function returns
CkResultsEnd ==
  /\ ckPc = "results" /\ ckResults = <<>> /\ ckResClosed
  /\ ckPc' = "returned"
  /\ UNCHANGED <<notCheck, ckN, ckNext, ckCancelled, ckIpChan, ckIpClosed,
                 ckWorkers, ckResults, ckResClosed, ckRead>>

\* worker: `case ip, ok := <-ipChan` with a value, then the inner select:
\* return on ctx.Done(), else the probe of ip
CkWorkerRecv(w) ==
  /\ ckWorkers[w].pc = "select" /\ ckIpChan # <<>>
  /\ ckWorkers' = [ckWorkers EXCEPT ![w] =
                     [pc |-> IF ckCancelled THEN "done" ELSE "probe",
                      ip |-> Head(ckIpChan)]]
  /\ ckIpChan' = Tail(ckIpChan)
  /\ UNCHANGED <<notCheck, ckN, ckPc, ckNext, ckCancelled, ckIpClosed, ckResults,
                 ckResClosed, ckRead>>

\* worker: ipChan is closed and drained (ok = false): return
CkWorkerEnd(w) ==
  /\ ckWorkers[w].pc = "select" /\ ckIpChan = <<>> /\ ckIpClosed
  /\ ckWorkers' = [ckWorkers EXCEPT ![w].pc = "done"]
  /\ UNCHANGED <<notCheck, ckN, ckPc, ckNext, ckCancelled, ckIpChan, ckIpClosed,
                 ckResults, ckResClosed, ckRead>>

\* worker: `case <-ctx.Done(): return` of the outer select
CkWorkerCancelled(w) ==
  /\ ckWorkers[w].pc = "select" /\ ckCancelled
  /\ ckWorkers' = [ckWorkers EXCEPT ![w].pc = "done"]
  /\ UNCHANGED <<notCheck, ckN, ckPc, ckNext, ckCancelled, ckIpChan, ckIpClosed,
                 ckResults, ckResClosed, ckRead>>

\* worker: the dial and the requests for ip return; on every path a result
\* for ip is then sent
CkProbe(w) ==
  /\ ckWorkers[w].pc = "probe"
  /\ ckWorkers' = [ckWorkers EXCEPT ![w].pc = "send"]
  /\ UNCHANGED <<notCheck, ckN, ckPc, ckNext, ckCancelled, ckIpChan, ckIpClosed,
                 ckResults, ckResClosed, ckRead>>

\* worker: `resultsChan <- result` (blocks while resultsChan is full; no
\* ctx.Done() alternative), then back to the outer select
CkWorkerSend(w) ==
  /\ ckWorkers[w].pc = "send" /\ Len(ckResults) < maxWorkers
  /\ ckResults' = Append(ckResults, ckWorkers[w].ip)
  /\ ckWorkers' = [ckWorkers EXCEPT ![w] = [pc |-> "select", ip |-> 0]]
  /\ UNCHANGED <<notCheck, ckN, ckPc, ckNext, ckCancelled, ckIpChan, ckIpClosed,
                 ckResClosed, ckRead>>

\* the goroutine `wg.Wait(); close(resultsChan)`
CkCloseResults ==
  /\ ckPc # "off" /\ ~ckResClosed
  /\ \A w \in 1..MaxWorkers : ckWorkers[w].pc \in {"off", "done"}
  /\ ckResClosed' = TRUE
  /\ UNCHANGED <<notCheck, ckN, ckPc, ckNext, ckCancelled, ckIpChan, ckIpClosed,
                 ckWorkers, ckResults, ckRead>>

\* the caller cancels ctx
CkCancel ==
  /\ ckPc # "off" /\ ~ckCancelled
  /\ ckCancelled' = TRUE
  /\ UNCHANGED <<notCheck, ckN, ckPc, ckNext, ckIpChan, ckIpClosed, ckWorkers,
                 ckResults, ckResClosed, ckRead>>

\* the steps of the goroutines of checkOllamaService
CkStep ==
  \/ CkStart
  \/ CkSend
  \/ CkCloseIps
  \/ CkMainCancelled
  \/ CkRecvResult
  \/ CkResultsEnd
  \/ \E w \in 1..MaxWorkers : CkWorkerRecv(w)
  \/ \E w \in 1..MaxWorkers : CkWorkerEnd(w)
  \/ \E w \in 1..MaxWorkers : CkWorkerCancelled(w)
  \/ \E w \in 1..MaxWorkers : CkProbe(w)
  \/ \E w \in 1..MaxWorkers : CkWorkerSend(w)
  \/ CkCloseResults

NextCheck == CkStep \/ CkCancel

SpecCheck == InitCheck /\ [][NextCheck]_vars

\* ------------------------------------------------------------ benchmarkModel
\* One call of benchmarkModel on an answer drawn from Responses.
LineSeqs == UNION {[1..n -> LineKinds] : n \in 0..MaxLines}

Responses ==
  {ConnError} \cup {Response(FALSE, c, <<>>) : c \in {404, 500}}
    \cup {Response(FALSE, 200, l) : l \in LineSeqs}

notBench == <<scanVars, checkVars, batchVars, rebenchVars, fnVars, ipVars>>

InitBench ==
  /\ prog = "bench" /\ maxWorkers = 1 /\ disableBench \in BOOLEAN
  /\ portScanOnly = FALSE /\ nCand = 0
  /\ ScanInit /\ CheckIdle /\ BatchIdle /\ RebenchIdle /\ FnIdle /\ IpIdle
  /\ bmResp \in Responses /\ bmPc = "call" /\ bmRet = NoTiming("")

BenchCall ==
  /\ bmPc = "call"
  /\ bmRet' = BenchResult(disableBench, bmResp)
  /\ bmPc' = "returned"
  /\ UNCHANGED <<notBench, bmResp>>

NextBench == BenchCall

SpecBench == InitBench /\ [][NextBench]_vars

\* ------------------------------------------------------------ benchmarkModel, the variants
\* One call of benchmarkModel of main.go (prog = "bench"), of part_000
\* (prog = "bench000") or of part_001 (prog = "bench001").  The answer says
\* besides the lines how the body ended (cut: the read failed because
\* benchTimeout expired; otherwise end of stream) and what the clock does
\* between two successive time.Now() calls (tick, in ms: 0 when both calls
\* read the same instant).
BenchVariants == {"bench", "bench000", "bench001"}

TimedResponses ==
  {[err |-> r.err, code |-> r.code, lines |-> r.lines, cut |-> c, tick |-> t] :
     r \in Responses, c \in BOOLEAN, t \in {0, 1}}

\* time.Duration saturates at math.MaxInt64 ns when Sub overflows; here the
\* largest integer of the model
MaxDuration == 2147483647

\* what a variant returns, with the elapsed time it divided by (finite is
\* false for the +Inf a float64 division by 0 gives)
Timed(delay, tps, status, st, elapsed, finite) ==
  [FirstTokenDelay |-> delay, TokensPerSec |-> tps, Status |-> status,
   tokenCount |-> st.tokenCount, read |-> st.read, elapsed |-> elapsed,
   finite |-> finite]

NoLines == [tokenCount |-> 0, firstToken |-> 0, lastToken |-> 0, read |-> 0]

\* benchmarkModel of the variant on the answer resp.  The scanner loop is the
\* same in the three files; firstToken is the first time.Now() of the first
\* iteration and lastToken the second time.Now() of the last one.
BenchTimed(variant, resp) ==
  IF resp.err THEN Timed(0, 0, "connection failed", NoLines, 0, TRUE)
  ELSE IF resp.code # 200 THEN Timed(0, 0, HttpStatus(resp.code), NoLines, 0, TRUE)
  ELSE LET st == ScanLines(resp.lines, 1, NoLines)
           first == st.firstToken
           last == st.lastToken + resp.tick
       IN IF st.tokenCount = 0 THEN Timed(0, 0, "no response", st, 0, TRUE)
          ELSE IF variant = "bench" THEN
            \* totalTime := lastToken.Sub(start)
            Timed(first, Rate(st.tokenCount, last), "success", st, last, TRUE)
          ELSE IF variant = "bench000" THEN
            \* firstToken.Sub(time.Now()); total := lastToken.Sub(firstToken)
            IF last - first = 0
              THEN Timed(first - (last + resp.tick), 0, "success", st, 0, FALSE)
              ELSE Timed(first - (last + resp.tick), Rate(st.tokenCount, last - first),
                         "success", st, last - first, TRUE)
          ELSE
            \* totalTime == 0 has its own status; firstToken.Sub(time.Time{})
            IF last - first = 0
              THEN Timed(0, 0, "zero time interval", st, 0, TRUE)
              ELSE Timed(MaxDuration, Rate(st.tokenCount, last - first),
                         "success", st, last - first, TRUE)

InitTimed ==
  /\ prog \in BenchVariants /\ maxWorkers = 1 /\ disableBench = FALSE
  /\ portScanOnly = FALSE /\ nCand = 0
  /\ ScanInit /\ CheckIdle /\ BatchIdle /\ RebenchIdle /\ FnIdle /\ IpIdle
  /\ bmResp \in TimedResponses /\ bmPc = "call" /\ bmRet = NoTiming("")

TimedCall ==
  /\ bmPc = "call"
  /\ bmRet' = BenchTimed(prog, bmResp)
  /\ bmPc' = "returned"
  /\ UNCHANGED <<notBench, bmResp>>

NextTimed == TimedCall

SpecTimed == InitTimed /\ [][NextTimed]_vars

\* ------------------------------------------------------------ processBatch
\* One call of processBatch of main.go on a batch of distinct addresses, one
\* statement at a time.  The hosts answer as they like; every send on
\* resultsChan gets through (resultHandler is receiving).
notBatch == <<scanVars, checkVars, benchVars, rebenchVars, fnVars, ipVars>>

\* answers of /api/generate used in a batch
BatchResponses ==
  {ConnError, Response(FALSE, 500, <<>>), NetworkResponse("llama3:8b")}

Call(fn, ip, model, ok, models, bench) ==
  [fn |-> fn, ip |-> ip, model |-> model, ok |-> ok, models |-> models,
   bench |-> bench, late |-> pbCancelled]

InitBatch ==
  /\ prog = "batch" /\ maxWorkers = 1 /\ disableBench \in BOOLEAN
  /\ portScanOnly \in BOOLEAN /\ nCand = 0
  /\ ScanInit /\ CheckIdle /\ BenchIdle /\ RebenchIdle /\ FnIdle /\ IpIdle
  /\ \E n \in 1..BatchSize : pbBatch = [i \in 1..n |-> Addr(i)]
  /\ pbPc = "loop" /\ pbIdx = 1 /\ pbResult = NoResult
  /\ pbModels = <<>> /\ pbK = 0 /\ pbCancelled = FALSE
  /\ pbPool = EmptyBag /\ pbCalls = <<>> /\ pbSent = <<>>

\* `for _, ip := range ips { select { case <-ctx.Done(): return; default:`
PbLoop ==
  /\ pbPc = "loop"
  /\ pbPc' = IF pbIdx > Len(pbBatch) \/ pbCancelled THEN "returned" ELSE "checkPort"
  /\ UNCHANGED <<notBatch, pbBatch, pbIdx, pbResult, pbModels, pbK, pbCancelled,
                 pbPool, pbCalls, pbSent>>

\* resultPool.Put(result) and the next address
PbPut(res) ==
  /\ pbPool' = pbPool (+) SetToBag({res.Models})
  /\ pbResult' = NoResult
  /\ pbIdx' = pbIdx + 1
  /\ pbPc' = "loop"

\* `if checkPort(ip) { result := resultPool.Get().(*ScanResult); result.IP = ip`
\* and, with portScanOnly, the PORT_SCAN result
PbCheckPort ==
  /\ pbPc = "checkPort"
  /\ \E open \in BOOLEAN :
       LET ip == pbBatch[pbIdx] IN
       /\ pbCalls' = Append(pbCalls, Call("checkPort", ip, "", open, <<>>, NoTiming("")))
       /\ IF ~open
            THEN /\ pbIdx' = pbIdx + 1
                 /\ pbPc' = "loop"
                 /\ UNCHANGED <<pbResult, pbPool, pbSent>>
            ELSE \E g \in {[fresh |-> TRUE, models |-> <<>>]}
                            \cup {[fresh |-> FALSE, models |-> m] : m \in BagToSet(pbPool)} :
                   LET pool == IF g.fresh THEN pbPool
                               ELSE pbPool (-) SetToBag({g.models})
                       res == [IP |-> ip, Models |-> g.models] IN
                   IF portScanOnly
                     THEN LET sent == [res EXCEPT !.Models = Append(@, PortScanInfo(ip))] IN
                          /\ pbSent' = Append(pbSent, sent)
                          /\ pbPool' = pool (+) SetToBag({sent.Models})
                          /\ pbResult' = NoResult
                          /\ pbIdx' = pbIdx + 1
                          /\ pbPc' = "loop"
                     ELSE /\ pbResult' = res
                          /\ pbPool' = pool
                          /\ pbPc' = "checkOllama"
                          /\ UNCHANGED <<pbIdx, pbSent>>
  /\ UNCHANGED <<notBatch, pbBatch, pbModels, pbK, pbCancelled>>

\* `else if checkOllama(ip) {`
PbCheckOllama ==
  /\ pbPc = "checkOllama"
  /\ \E ok \in BOOLEAN :
       /\ pbCalls' = Append(pbCalls, Call("checkOllama", pbBatch[pbIdx], "", ok,
                                          <<>>, NoTiming("")))
       /\ IF ok THEN /\ pbPc' = "getModels"
                     /\ UNCHANGED <<pbResult, pbIdx, pbPool>>
          ELSE PbPut(pbResult)
  /\ UNCHANGED <<notBatch, pbBatch, pbModels, pbK, pbCancelled, pbSent>>

\* `if models := getModels(ip); len(models) > 0 { models = sortModels(models)`
PbGetModels ==
  /\ pbPc = "getModels"
  /\ \E cat \in Catalogs :
       /\ pbCalls' = Append(pbCalls, Call("getModels", pbBatch[pbIdx], "", TRUE,
                                          cat, NoTiming("")))
       /\ IF HasModels(cat)
            THEN /\ pbModels' = sortModels(cat)
                 /\ pbK' = 1
                 /\ pbPc' = "models"
                 /\ UNCHANGED <<pbResult, pbIdx, pbPool>>
            ELSE /\ PbPut(pbResult)
                 /\ UNCHANGED <<pbModels, pbK>>
  /\ UNCHANGED <<notBatch, pbBatch, pbCancelled, pbSent>>

\* one iteration of `for _, model := range models`
PbModel ==
  /\ pbPc = "models" /\ pbK <= Len(pbModels)
  /\ LET ip == pbBatch[pbIdx]
         model == pbModels[pbK] IN
     \E resp \in BatchResponses :
       LET r == BenchResult(disableBench, resp)
           info == IF ~disableBench
                     THEN [Name |-> model, FirstTokenDelay |-> r.FirstTokenDelay,
                           TokensPerSec |-> r.TokensPerSec, Status |-> r.Status,
                           for |-> ip]
                     ELSE [Name |-> model, FirstTokenDelay |-> 0, TokensPerSec |-> 0,
                           Status |-> "found", for |-> ip] IN
       /\ disableBench => resp = ConnError
       /\ pbCalls' = IF ~disableBench
                       THEN Append(pbCalls, Call("benchmarkModel", ip, model, TRUE, <<>>, r))
                       ELSE pbCalls
       /\ pbResult' = [pbResult EXCEPT !.Models = Append(@, info)]
  /\ pbK' = pbK + 1
  /\ UNCHANGED <<notBatch, pbBatch, pbPc, pbIdx, pbModels, pbCancelled, pbPool,
                 pbSent>>

\* `resultsChan <- *result` after the last model, then resultPool.Put(result)
PbSend ==
  /\ pbPc = "models" /\ pbK > Len(pbModels)
  /\ pbSent' = Append(pbSent, pbResult)
  /\ PbPut(pbResult)
  /\ UNCHANGED <<notBatch, pbBatch, pbModels, pbK, pbCancelled, pbCalls>>

\* cancel() of the scan context, at any moment of the call
PbCancel ==
  /\ pbPc \notin {"off", "returned"} /\ ~pbCancelled
  /\ pbCancelled' = TRUE
  /\ UNCHANGED <<notBatch, pbBatch, pbPc, pbIdx, pbResult, pbModels, pbK, pbPool,
                 pbCalls, pbSent>>

NextBatch ==
  \/ PbLoop \/ PbCheckPort \/ PbCheckOllama \/ PbGetModels \/ PbModel
  \/ PbSend \/ PbCancel

SpecBatch == InitBatch /\ [][NextBatch]_vars

\* ------------------------------------------------------------ benchmarkModel(ctx)
\* benchmarkModel(ctx) of part_003 (prog = "part_003") and of part_004
\* (prog = "part_004"): the workers benchmark the available rows of the
\* detection results and the rows are written to a new output file.  A call
\* of benchmarkSingleModel that does not return leaves its worker where it is.
notRebench == <<scanVars, checkVars, benchVars, batchVars, fnVars, ipVars>>

InitRebench ==
  /\ prog \in {"part_003", "part_004"} /\ maxWorkers \in 1..MaxWorkers
  /\ disableBench = FALSE /\ portScanOnly = FALSE /\ nCand = 0
  /\ ScanInit /\ CheckIdle /\ BenchIdle /\ BatchIdle /\ FnIdle /\ IpIdle
  /\ \E n \in 0..MaxEntries : rb = [RebenchOff EXCEPT !.n = n, !.pc = "start"]
  /\ rbWorkers = [w \in 1..MaxWorkers |-> [pc |-> "off", j |-> 0]]
  /\ rbHist = [i \in 0..(MaxEntries - 1) |-> [benched |-> 0, rows |-> 0]]

\* the step of a worker's loop: part_003 `for _, item := range availableResults`,
\* part_004 `j += cfg.MaxWorkers`
StrideOne(W) == 1
Stride(W) == IF prog = "part_004" THEN W ELSE 1

\* readCSV, the filter, os.Rename to the backup, initCSV, and the go
\* statements of the workers (worker w has index w - 1) and of the goroutine
\* that waits for them; part_004 returns when there is no available row
RbStart ==
  /\ rb.pc = "start"
  /\ IF prog = "part_004" /\ rb.n = 0
       THEN /\ rb' = [rb EXCEPT !.pc = "returned", !.backup = "present"]
            /\ UNCHANGED rbWorkers
       ELSE /\ rb' = [rb EXCEPT !.pc = "wait", !.backup = "present"]
            /\ rbWorkers' = [w \in 1..MaxWorkers |->
                               IF w <= maxWorkers
                                 THEN [pc |-> "loop",
                                       j |-> IF prog = "part_004" THEN w - 1 ELSE 0]
                                 ELSE rbWorkers[w]]
  /\ UNCHANGED <<notRebench, rbHist>>

\* the loop condition and `select { case <-ctx.Done(): return; default:`
RbLoop(w) ==
  /\ rbWorkers[w].pc = "loop"
  /\ rbWorkers' = [rbWorkers EXCEPT ![w].pc =
                     IF rbWorkers[w].j >= rb.n \/ rb.cancelled THEN "done" ELSE "bench"]
  /\ UNCHANGED <<notRebench, rb, rbHist>>

\* benchmarkSingleModel(ctx, item.IP, item.ModelNames[0], client)
RbBench(w) ==
  /\ rbWorkers[w].pc = "bench"
  /\ rbHist' = [rbHist EXCEPT ![rbWorkers[w].j].benched = @ + 1]
  /\ rbWorkers' = [rbWorkers EXCEPT ![w].pc = "emit"]
  /\ UNCHANGED <<notRebench, rb>>

\* part_003: processResult(item) under csvMutex; part_004: `resultsChan <- result`
\* (blocks while the channel holds cfg.MaxWorkers results)
RbEmit(w) ==
  /\ rbWorkers[w].pc = "emit"
  /\ IF prog = "part_003"
       THEN /\ rbHist' = [rbHist EXCEPT ![rbWorkers[w].j].rows = @ + 1]
            /\ UNCHANGED rb
       ELSE /\ Len(rb.chan) < maxWorkers
            /\ rb' = [rb EXCEPT !.chan = Append(@, rbWorkers[w].j)]
            /\ UNCHANGED rbHist
  /\ rbWorkers' = [rbWorkers EXCEPT ![w].pc = "loop", ![w].j = @ + Stride(maxWorkers)]
  /\ UNCHANGED notRebench

\* `go func() { wg.Wait(); close(resultsChan) }()` (part_003: close(done))
RbClose ==
  /\ rb.pc \in {"wait", "returned"} /\ ~rb.closed
  /\ \A w \in 1..maxWorkers : rbWorkers[w].pc = "done"
  /\ rb' = [rb EXCEPT !.closed = TRUE]
  /\ UNCHANGED <<notRebench, rbWorkers, rbHist>>

\* part_004: `case result, ok := <-resultsChan` with ok: processResult(result)
RbRecv ==
  /\ prog = "part_004" /\ rb.pc = "wait" /\ rb.chan # <<>>
  /\ rbHist' = [rbHist EXCEPT ![Head(rb.chan)].rows = @ + 1]
  /\ rb' = [rb EXCEPT !.chan = Tail(@), !.processed = @ + 1]
  /\ UNCHANGED <<notRebench, rbWorkers>>

\* part_004: the receive with !ok; part_003: `case <-done`; both remove the backup
RbFinish ==
  /\ rb.pc = "wait" /\ rb.closed /\ rb.chan = <<>>
  /\ rb' = [rb EXCEPT !.pc = "returned", !.backup = "removed"]
  /\ UNCHANGED <<notRebench, rbWorkers, rbHist>>

\* `case <-ctx.Done(): return` of the main goroutine
RbMainCancelled ==
  /\ rb.pc = "wait" /\ rb.cancelled
  /\ rb' = [rb EXCEPT !.pc = "returned"]
  /\ UNCHANGED <<notRebench, rbWorkers, rbHist>>

\* the signal handler cancels the context
RbCancel ==
  /\ rb.pc \in {"start", "wait"} /\ ~rb.cancelled
  /\ rb' = [rb EXCEPT !.cancelled = TRUE]
  /\ UNCHANGED <<notRebench, rbWorkers, rbHist>>

NextRebench ==
  \/ RbStart \/ RbClose \/ RbRecv \/ RbFinish \/ RbMainCancelled \/ RbCancel
  \/ \E w \in 1..MaxWorkers : RbLoop(w) \/ RbBench(w) \/ RbEmit(w)

SpecRebench == InitRebench /\ [][NextRebench]_vars

\* ------------------------------------------------------------ getModels, sortModels
\* The model list of a host: sortModels(getModels(ip)) on the answer of
\* /api/tags, fetched twice.
notFn == <<scanVars, checkVars, benchVars, batchVars, rebenchVars, ipVars>>

\* most entries of the "models" array of a catalog document
MaxCatalog == 3

\* the "model" fields a document may hold, repeated or not
CatalogNames == {"llama3:70b", "llama3:8b", "qwen:0.5b", "mistral"}

\* answers of GET /api/tags: a transport error, a status, a body that does
\* or does not decode, and the "model" fields of the body in document order
TagsAnswers ==
  {[err |-> TRUE, code |-> 0, decodes |-> FALSE, models |-> <<>>],
   [err |-> FALSE, code |-> 500, decodes |-> TRUE, models |-> <<"llama3:8b">>],
   [err |-> FALSE, code |-> 200, decodes |-> FALSE, models |-> <<>>]}
    \cup {[err |-> FALSE, code |-> 200, decodes |-> TRUE, models |-> d] :
            d \in UNION {[1..n -> CatalogNames] : n \in 0..MaxCatalog}}

\* getModels: nil on an error, a status other than 200 or an undecodable
\* body, else every "model" field appended in document order
getModels(answer) ==
  IF answer.err \/ answer.code # 200 \/ ~answer.decodes THEN <<>>
  ELSE answer.models

InitCatalog ==
  /\ prog = "catalog" /\ maxWorkers = 1 /\ disableBench = FALSE
  /\ portScanOnly = FALSE /\ nCand = 0
  /\ ScanInit /\ CheckIdle /\ BenchIdle /\ BatchIdle /\ RebenchIdle /\ IpIdle
  /\ \E a \in TagsAnswers :
       fnCall = [fn |-> "sortModels(getModels)", pc |-> "call", in |-> a,
                 out |-> <<>>, again |-> <<>>]

\* the first fetch
CatalogFetch ==
  /\ fnCall.fn = "sortModels(getModels)" /\ fnCall.pc = "call"
  /\ fnCall' = [fnCall EXCEPT !.pc = "again", !.out = sortModels(getModels(fnCall.in))]
  /\ UNCHANGED notFn

\* a second fetch of the same document
CatalogFetchAgain ==
  /\ fnCall.fn = "sortModels(getModels)" /\ fnCall.pc = "again"
  /\ fnCall' = [fnCall EXCEPT !.pc = "returned",
                              !.again = sortModels(getModels(fnCall.in))]
  /\ UNCHANGED notFn

NextCatalog == CatalogFetch \/ CatalogFetchAgain

SpecCatalog == InitCatalog /\ [][NextCatalog]_vars

\* ------------------------------------------------------------ benchmarkSingleModel
\* The read loop of benchmarkSingleModel of part_003 (prog = "stream003") and
\* of part_004 (prog = "stream004") on a 200 answer whose body is a sequence
\* of objects followed by the end of the stream.  A `break` inside the
\* `select` ends the select statement, not the `for` around it.
StreamProgs == {"stream003", "stream004"}

InitStream ==
  /\ prog \in StreamProgs /\ maxWorkers = 1 /\ disableBench = FALSE
  /\ portScanOnly = FALSE /\ nCand = 0
  /\ ScanInit /\ CheckIdle /\ BenchIdle /\ BatchIdle /\ RebenchIdle /\ IpIdle
  /\ \E body \in LineSeqs :
       fnCall = [fn |-> "benchmarkSingleModel", pc |-> "for", in |-> body,
                 pos |-> 0, cancelled |-> FALSE, ended |-> FALSE, late |-> FALSE]

\* decoder.More() of part_004: there is unread input that is not white space
\* (a syntax error leaves the offending input unread)
More == fnCall.pos < Len(fnCall.in)

\* the loop condition (`for decoder.More()` in part_004, `for` in part_003)
\* and `select { case <-ctx.Done(): return 0, 0; default:`
StreamFor ==
  /\ fnCall.fn = "benchmarkSingleModel" /\ fnCall.pc = "for"
  /\ fnCall' = [fnCall EXCEPT !.pc =
                  IF prog = "stream004" /\ ~More THEN "returned"
                  ELSE IF fnCall.cancelled THEN "returned"
                  ELSE "decode"]
  /\ UNCHANGED notFn

\* decoder.Decode(&streamResponse) and the rest of the default case.  ended:
\* a done object has been decoded or Decode has returned io.EOF; late: Decode
\* was called after that.
StreamDecode ==
  /\ fnCall.fn = "benchmarkSingleModel" /\ fnCall.pc = "decode"
  /\ LET c == [fnCall EXCEPT !.late = fnCall.late \/ fnCall.ended] IN
     IF ~More
       \* io.EOF: `break`
       THEN fnCall' = [c EXCEPT !.pc = "for", !.ended = TRUE]
     ELSE IF ~fnCall.in[fnCall.pos + 1].ok
       \* another error: part_003 returns 0, 0; part_004 prints it and `break`
       THEN fnCall' = [c EXCEPT !.pc = IF prog = "stream003" THEN "returned" ELSE "for"]
     ELSE \* an object: the token counters, then `if streamResponse.Done { break }`
          fnCall' = [c EXCEPT !.pc = "for", !.pos = @ + 1,
                              !.ended = c.ended \/ fnCall.in[fnCall.pos + 1].done]
  /\ UNCHANGED notFn

\* the context of the call is cancelled
StreamCancel ==
  /\ fnCall.fn = "benchmarkSingleModel" /\ fnCall.pc # "returned" /\ ~fnCall.cancelled
  /\ fnCall' = [fnCall EXCEPT !.cancelled = TRUE]
  /\ UNCHANGED notFn

NextStream == StreamFor \/ StreamDecode \/ StreamCancel

SpecStream == InitStream /\ [][NextStream]_vars

\* ------------------------------------------------------------ processIP (part_000)
\* The tasks processResults of part_000 submits, from the moment
\* WorkerPool.Submit has admitted them (maxWorkers is at least the number of
\* candidates), and resultHandler.  No signal arrives.  Every host lists one
\* model, so a backing array of result.Models holds one ModelInfo; the array
\* a task allocates is numbered like the task.
notIp == <<scanVars, checkVars, benchVars, batchVars, rebenchVars, fnVars>>

InitIp ==
  /\ prog = "part_000" /\ maxWorkers = SemCap + 1 /\ disableBench = FALSE
  /\ portScanOnly = FALSE /\ nCand = 0
  /\ ScanInit /\ CheckIdle /\ BenchIdle /\ BatchIdle /\ RebenchIdle /\ FnIdle
  /\ ipTasks = [c \in TaskIds |-> [NoTask EXCEPT !.pc = "sem"]]
  /\ ipMem = [heap |-> [a \in TaskIds |-> ""], pool |-> {}]
  /\ ipChan = <<>>
  /\ ipRh = [pc |-> "range", cur |-> 0, reads |-> <<>>]

\* slots of semaphore in use: taken at the select, given back by the
\* deferred receive when processIP returns
SemHeld == Cardinality({c \in TaskIds : ipTasks[c].pc \in {"probe", "fill", "send", "reset"}})

\* the ModelInfo task c builds for the one model of its host
InfoFor(c) == Addresses[c]

\* the deadline of context.WithTimeout(ctx, timeout) of task c passes
IpTimeout(c) ==
  /\ ipTasks[c].pc \in {"sem", "probe", "fill", "send"} /\ ~ipTasks[c].timedOut
  /\ ipTasks' = [ipTasks EXCEPT ![c].timedOut = TRUE]
  /\ UNCHANGED <<notIp, ipMem, ipChan, ipRh>>

\* `select { case <-ctx.Done(): return; case semaphore <- struct{}{}:`
IpAcquire(c) ==
  /\ ipTasks[c].pc = "sem" /\ SemHeld < SemCap
  /\ ipTasks' = [ipTasks EXCEPT ![c].pc = "probe"]
  /\ UNCHANGED <<notIp, ipMem, ipChan, ipRh>>

IpGiveUp(c) ==
  /\ ipTasks[c].pc = "sem" /\ ipTasks[c].timedOut
  /\ ipTasks' = [ipTasks EXCEPT ![c].pc = "done"]
  /\ UNCHANGED <<notIp, ipMem, ipChan, ipRh>>

\* checkPort, checkOllama, getModels: a return when one of them fails
IpProbe(c) ==
  /\ ipTasks[c].pc = "probe"
  /\ \E found \in BOOLEAN :
       ipTasks' = [ipTasks EXCEPT ![c].probed = TRUE, ![c].found = found,
                                  ![c].pc = IF found THEN "fill" ELSE "done"]
  /\ UNCHANGED <<notIp, ipMem, ipChan, ipRh>>

\* resultPool.Get(), result.IP = ip, and the append of the ModelInfo: into
\* the array of a pooled object (length 0, capacity 1) or into a new array
IpFill(c) ==
  /\ ipTasks[c].pc = "fill"
  /\ \E a \in {c} \cup ipMem.pool :
       /\ ipMem' = [heap |-> [ipMem.heap EXCEPT ![a] = InfoFor(c)],
                    pool |-> ipMem.pool \ {a}]
       /\ ipTasks' = [ipTasks EXCEPT ![c].arr = a, ![c].pc = "send"]
  /\ UNCHANGED <<notIp, ipChan, ipRh>>

\* `select { case resultsChan <- *result: ... }`: the copy shares the array
IpSend(c) ==
  /\ ipTasks[c].pc = "send" /\ Len(ipChan) < maxWorkers
  /\ ipChan' = Append(ipChan, [IP |-> Addresses[c], arr |-> ipTasks[c].arr,
                               sent |-> ipMem.heap[ipTasks[c].arr]])
  /\ ipTasks' = [ipTasks EXCEPT ![c].pc = "reset", ![c].delivered = TRUE]
  /\ UNCHANGED <<notIp, ipMem, ipRh>>

\* `... case <-ctx.Done(): return }`
IpDrop(c) ==
  /\ ipTasks[c].pc = "send" /\ ipTasks[c].timedOut
  /\ ipTasks' = [ipTasks EXCEPT ![c].pc = "done"]
  /\ UNCHANGED <<notIp, ipMem, ipChan, ipRh>>

\* result.IP = ""; result.Models = result.Models[:0]; resultPool.Put(result)
IpReset(c) ==
  /\ ipTasks[c].pc = "reset"
  /\ ipMem' = [ipMem EXCEPT !.pool = @ \cup {ipTasks[c].arr}]
  /\ ipTasks' = [ipTasks EXCEPT ![c].pc = "done"]
  /\ UNCHANGED <<notIp, ipChan, ipRh>>

\* resultHandler: `for res := range resultsChan`
IpRhRecv ==
  /\ ipRh.pc = "range" /\ ipChan # <<>>
  /\ ipRh' = [ipRh EXCEPT !.pc = "read", !.cur = Head(ipChan)]
  /\ ipChan' = Tail(ipChan)
  /\ UNCHANGED <<notIp, ipTasks, ipMem>>

\* printResult(res); writeCSV(res): res.Models is read through the array
IpRhRead ==
  /\ ipRh.pc = "read"
  /\ ipRh' = [ipRh EXCEPT !.pc = "range", !.cur = 0,
                          !.reads = Append(@, [sent |-> ipRh.cur.sent,
                                               seen |-> ipMem.heap[ipRh.cur.arr]])]
  /\ UNCHANGED <<notIp, ipTasks, ipMem, ipChan>>

NextIp ==
  \/ \E c \in TaskIds : \/ IpTimeout(c) \/ IpAcquire(c) \/ IpGiveUp(c) \/ IpProbe(c)
                        \/ IpFill(c) \/ IpSend(c) \/ IpDrop(c) \/ IpReset(c)
  \/ IpRhRecv \/ IpRhRead

SpecIp == InitIp /\ [][NextIp]_vars

\* ------------------------------------------------------------ WorkerPool
\* The size handed to NewWorkerPool and what Submit, the tasks and Wait do
\* with it.  prog = "pool001" is the program of part_001 (main, loadConfig,
\* validateConfig, initHTTPClient, startScan, processResults); prog =
\* "pool000" is detectOllamaService of part_000, which copies the configured
\* value into the global before it builds the pool.
PoolProgs == {"pool000", "pool001"}

\* the global maxWorkers after the configuration was loaded: part_000 assigns
\* cfg.MaxWorkers to it; part_001 only registers a viper default and never
\* assigns the global, which keeps the value it had
LoadedWorkers(variant, configured, global) ==
  IF variant = "pool000" THEN configured ELSE global

InitPool ==
  /\ prog \in PoolProgs /\ maxWorkers = 1 /\ disableBench = FALSE
  /\ portScanOnly = FALSE /\ nCand = 0
  /\ ScanInit /\ CheckIdle /\ BenchIdle /\ BatchIdle /\ RebenchIdle /\ IpIdle
  /\ \E c \in 1..MaxWorkers, n \in 0..MaxCandidates :
       fnCall = [fn |-> "WorkerPool", pc |-> "loadConfig", configured |-> c,
                 maxWorkers |-> 0, size |-> 0, n |-> n, submitted |-> 0,
                 cancelled |-> FALSE,
                 task |-> [i \in 1..MaxCandidates |-> "none"]]

PoolCall == fnCall.fn = "WorkerPool"

\* slots of p.workers that tasks hold
Held == Cardinality({i \in 1..MaxCandidates : fnCall.task[i] = "task"})

\* loadConfig and validateConfig (part_001), loadAndValidateConfig and the
\* assignments that follow it (part_000)
PlLoadConfig ==
  /\ PoolCall /\ fnCall.pc = "loadConfig"
  /\ fnCall' = [fnCall EXCEPT !.pc = "startScan",
                  !.maxWorkers = LoadedWorkers(prog, fnCall.configured, fnCall.maxWorkers)]
  /\ UNCHANGED notFn

\* pool := NewWorkerPool(maxWorkers)
PlNewWorkerPool ==
  /\ PoolCall /\ fnCall.pc = "startScan"
  /\ fnCall' = [fnCall EXCEPT !.pc = "submit", !.size = fnCall.maxWorkers]
  /\ UNCHANGED notFn

\* pool.Submit for the next candidate line: wg.Add(1) and a goroutine at
\* its select
PlSubmit ==
  /\ PoolCall /\ fnCall.pc = "submit" /\ fnCall.submitted < fnCall.n
  /\ fnCall' = [fnCall EXCEPT !.submitted = @ + 1,
                              !.task[fnCall.submitted + 1] = "select"]
  /\ UNCHANGED notFn

\* the file is exhausted: processResults goes to pool.Wait()
PlScanned ==
  /\ PoolCall /\ fnCall.pc = "submit" /\ fnCall.submitted = fnCall.n
  /\ fnCall' = [fnCall EXCEPT !.pc = "wait"]
  /\ UNCHANGED notFn

\* case p.workers <- struct{}{}: the send goes through while the channel
\* holds fewer than its capacity (a channel of capacity 0 has no receiver
\* here, the only receive is the one of a task that already sent)
PlAcquire(i) ==
  /\ PoolCall /\ fnCall.task[i] = "select" /\ Held < fnCall.size
  /\ fnCall' = [fnCall EXCEPT !.task[i] = "task"]
  /\ UNCHANGED notFn

\* case <-ctx.Done(): return
PlCancelled(i) ==
  /\ PoolCall /\ fnCall.task[i] = "select" /\ fnCall.cancelled
  /\ fnCall' = [fnCall EXCEPT !.task[i] = "done"]
  /\ UNCHANGED notFn

\* task() and <-p.workers, then wg.Done()
PlRelease(i) ==
  /\ PoolCall /\ fnCall.task[i] = "task"
  /\ fnCall' = [fnCall EXCEPT !.task[i] = "done"]
  /\ UNCHANGED notFn

\* pool.Wait() returns once every submitted task called wg.Done()
PlWait ==
  /\ PoolCall /\ fnCall.pc = "wait"
  /\ \A i \in 1..MaxCandidates : fnCall.task[i] \in {"none", "done"}
  /\ fnCall' = [fnCall EXCEPT !.pc = "returned"]
  /\ UNCHANGED notFn

\* the signal handler cancels the context
PlCancel ==
  /\ PoolCall /\ fnCall.pc \in {"submit", "wait"} /\ ~fnCall.cancelled
  /\ fnCall' = [fnCall EXCEPT !.cancelled = TRUE]
  /\ UNCHANGED notFn

PlTask == \E i \in 1..MaxCandidates : PlAcquire(i) \/ PlCancelled(i) \/ PlRelease(i)

NextPool ==
  PlLoadConfig \/ PlNewWorkerPool \/ PlSubmit \/ PlScanned \/ PlTask \/ PlWait \/ PlCancel

SpecPool == InitPool /\ [][NextPool]_vars

\* ------------------------------------------------------------ Scanner (part_002)
\* The menu of part_002: choice 2 (NewScanner("detect"), DetectOllama) writes
\* OllamaOutputFile, choice 3 (NewScanner("benchmark"), BenchmarkOllama)
\* reads it and writes OutputFile through a csv.Writer.  A file is the
\* sequence of its records, the header first; the writer is the records it
\* buffers (buf) and the records that reached the file (disk).  The records
\* used here stay far below the 4096 bytes at which bufio flushes by itself.
NoFile == <<>>

\* lines of ScanOutputFile, and what /api/tags of an address lists
DetectLines == {"", "10.0.0.1", " 10.0.0.2 "}
DetectInputs == UNION {[1..n -> DetectLines] : n \in 0..MaxCandidates}

\* createCSVFile: the header of the operation (titles transliterated)
ForeignHeaders == <<"IP", "Port", "Status", "Model">>
ScannerHeaders(operation) ==
  IF operation = "detect" THEN <<"IP", "Model">>
  ELSE <<"IP", "Model", "Status", "FirstTokenDelay(ms)", "Tokens/s">>

\* DetectOllama: records[i] = []string{ip, model}
DetectRecord(ip, model) == <<ip, model>>

\* the rows one goroutine of DetectOllama hands to WriteAll
DetectRecords(ip, models) ==
  [i \in 1..Len(models) |-> DetectRecord(ip, models[i])]

\* the rows of the goroutines that ran in the order given, blank lines skipped
RECURSIVE DetectRows(_, _)
DetectRows(lines, catalog) ==
  IF lines = <<>> THEN <<>>
  ELSE (IF TrimSpace(Head(lines)) = "" THEN <<>>
        ELSE DetectRecords(TrimSpace(Head(lines)), catalog[TrimSpace(Head(lines))]))
         \o DetectRows(Tail(lines), catalog)

\* a file of another origin under the name OllamaOutputFile: four columns,
\* the model name in the fourth, and rows that have or lack what the
\* benchmark needs
ForeignRecords ==
  {<<"10.0.0.1", "11434", "found", "llama3:8b">>,
   <<"10.0.0.3", "11434", "found", "">>,
   <<"not-an-ip", "llama3:8b">>}
ForeignFiles ==
  {<<ForeignHeaders>> \o rows :
     rows \in UNION {[1..n -> ForeignRecords] : n \in 0..MaxEntries}}

\* what the request of one benchmark goroutine ends in
Outcomes == {"connection failed", "HTTP 500", "no response", "success"}

\* the record a benchmark goroutine writes
BenchRecord(ip, modelName, outcome) ==
  IF outcome = "success" THEN <<ip, modelName, outcome, "120", "5.00">>
  ELSE <<ip, modelName, outcome, "0", "0">>

\* csvWriter.Flush() is called after the row of a success only
FlushesAfter(outcome) == outcome = "success"

InitScanner ==
  /\ prog = "part_002" /\ maxWorkers \in 1..MaxWorkers /\ disableBench = FALSE
  /\ portScanOnly = FALSE /\ nCand = 0
  /\ ScanInit /\ CheckIdle /\ BenchIdle /\ BatchIdle /\ RebenchIdle /\ IpIdle
  /\ \E f \in ForeignFiles \cup {NoFile}, lines \in DetectInputs,
        catalog \in [{"10.0.0.1", "10.0.0.2"} -> Catalogs] :
       /\ f # NoFile => (lines = <<>> /\ catalog = [a \in {"10.0.0.1", "10.0.0.2"} |-> <<>>])
       /\ fnCall = [fn |-> "Scanner", pc |-> "menu", lines |-> lines,
                    catalog |-> catalog, ollama |-> f, detected |-> <<>>,
                    next |-> 0, job |-> <<>>, asked |-> {}, written |-> <<>>,
                    buf |-> <<>>, disk |-> <<>>]

ScannerCall == fnCall.fn = "Scanner"

\* menu choice 2: NewScanner("detect") creates OllamaOutputFile with its
\* header, DetectOllama appends the rows of every address; each goroutine
\* flushes under writeMu, the goroutines finish in any order
ScDetect ==
  /\ ScannerCall /\ fnCall.pc = "menu" /\ fnCall.ollama = NoFile
  /\ \E p \in Permutations(1..Len(fnCall.lines)) :
       LET rows == DetectRows([i \in 1..Len(fnCall.lines) |-> fnCall.lines[p[i]]],
                              fnCall.catalog)
       IN fnCall' = [fnCall EXCEPT !.ollama = <<ScannerHeaders("detect")>> \o rows,
                                   !.detected = rows]
  /\ UNCHANGED notFn

\* menu choice 3: NewScanner("benchmark") creates OutputFile and flushes the
\* header; BenchmarkOllama opens OllamaOutputFile and reads the header
ScBenchmark ==
  /\ ScannerCall /\ fnCall.pc = "menu" /\ fnCall.ollama # NoFile
  /\ fnCall' = [fnCall EXCEPT !.pc = "read", !.next = 2,
                  !.job = [i \in 1..Len(fnCall.ollama) |-> "none"],
                  !.disk = <<ScannerHeaders("benchmark")>>, !.buf = <<>>]
  /\ UNCHANGED notFn

Reading == ScannerCall /\ fnCall.pc = "read" /\ fnCall.next <= Len(fnCall.ollama)

\* reader.Read() reports ErrFieldCount for a record that has not the number
\* of fields of the first one
FieldCountError ==
  /\ fnCall.next <= Len(fnCall.ollama)
  /\ Len(fnCall.ollama[fnCall.next]) # Len(fnCall.ollama[1])

\* reader.Read() fails at the end of the file or on a record of another
\* length: break
BoBreak ==
  /\ ScannerCall /\ fnCall.pc = "read"
  /\ fnCall.next > Len(fnCall.ollama) \/ FieldCountError
  /\ fnCall' = [fnCall EXCEPT !.pc = "wait"]
  /\ UNCHANGED notFn

\* len(record) < 4: the record is reported invalid and skipped
BoSkip ==
  /\ Reading /\ ~FieldCountError /\ Len(fnCall.ollama[fnCall.next]) < 4
  /\ fnCall' = [fnCall EXCEPT !.next = @ + 1]
  /\ UNCHANGED notFn

\* workerPool <- struct{}{}, wg.Add(1) and go func(record[0], record[3])
BoSpawn ==
  /\ Reading /\ ~FieldCountError /\ Len(fnCall.ollama[fnCall.next]) >= 4
  /\ Cardinality({j \in DOMAIN fnCall.job : fnCall.job[j] = "go"}) < maxWorkers
  /\ fnCall' = [fnCall EXCEPT !.next = @ + 1, !.job[fnCall.next] = "go"]
  /\ UNCHANGED notFn

JobIp(j) == fnCall.ollama[j][1]
JobModel(j) == fnCall.ollama[j][4]

\* net.ParseIP(ip) == nil || modelName == "": the goroutine returns
BoInvalid(j) ==
  /\ ScannerCall /\ fnCall.job[j] = "go"
  /\ ~ParseIP(JobIp(j)) \/ JobModel(j) = ""
  /\ fnCall' = [fnCall EXCEPT !.job[j] = "done"]
  /\ UNCHANGED notFn

\* the request, and under writeMu the row of its outcome, flushed or not
BoRow(j) ==
  /\ ScannerCall /\ fnCall.job[j] = "go"
  /\ ParseIP(JobIp(j)) /\ JobModel(j) # ""
  /\ \E outcome \in Outcomes :
       LET row == BenchRecord(JobIp(j), JobModel(j), outcome)
           flush == FlushesAfter(outcome)
       IN fnCall' = [fnCall EXCEPT !.job[j] = "done",
                       !.asked = @ \cup {<<JobIp(j), JobModel(j)>>},
                       !.written = Append(@, row),
                       !.buf = IF flush THEN <<>> ELSE Append(@, row),
                       !.disk = IF flush THEN @ \o Append(fnCall.buf, row) ELSE @]
  /\ UNCHANGED notFn

\* wg.Wait() and return nil: control is back in the menu loop of main, which
\* does not call Close
BoReturn ==
  /\ ScannerCall /\ fnCall.pc = "wait"
  /\ \A j \in DOMAIN fnCall.job : fnCall.job[j] # "go"
  /\ fnCall' = [fnCall EXCEPT !.pc = "returned"]
  /\ UNCHANGED notFn

\* menu choice 0: main returns
ScExit ==
  /\ ScannerCall /\ fnCall.pc = "returned"
  /\ fnCall' = [fnCall EXCEPT !.pc = "exit"]
  /\ UNCHANGED notFn

BoJob == \E j \in DOMAIN fnCall.job : BoInvalid(j) \/ BoRow(j)

NextScanner ==
  ScDetect \/ ScBenchmark \/ BoBreak \/ BoSkip \/ BoSpawn \/ BoJob \/ BoReturn \/ ScExit

SpecScanner == InitScanner /\ [][NextScanner]_vars

\* ------------------------------------------------------------ Scanner (part_000)
\* The menu of the Scanner of part_000: choice 2 (DetectOllama) writes one
\* row per line of the address list to OllamaOutputFile from one goroutine
\* per line, choice 3 (BenchmarkOllama) reads that file and calls
\* processModels for the rows that report the service.  The address list
\* has n lines; addresses are Addr(1..n).
ServiceStatus(up) == IF up THEN "service ok" ELSE "no service"

\* the record a goroutine of DetectOllama writes
ServiceRecord(ip, up) == <<ip, "11434", ServiceStatus(up)>>

\* csv.Writer keeps no lock: what a Write that ran while another goroutine
\* was inside Write leaves in the buffer (the record, nothing, or bytes of
\* both records) is not determined
Garbled == <<"?">>
RacedWrites(record) == {<<record>>, <<>>, <<Garbled>>}

NoGoroutine == [pc |-> "none", up |-> FALSE, raced |-> FALSE]

InitScanner000 ==
  /\ prog = "part_000" /\ maxWorkers \in 1..MaxWorkers /\ disableBench = FALSE
  /\ portScanOnly = FALSE /\ nCand = 0
  /\ ScanInit /\ CheckIdle /\ BenchIdle /\ BatchIdle /\ RebenchIdle /\ IpIdle
  /\ \E n \in 0..MaxCandidates :
       fnCall = [fn |-> "Scanner000", pc |-> "menu", n |-> n, next |-> 1,
                 g |-> [i \in 1..MaxCandidates |-> NoGoroutine],
                 overlapped |-> FALSE, ollama |-> <<>>,
                 models |-> <<>>, k |-> 1, chan |-> <<>>, produced |-> <<>>,
                 out |-> <<>>]

Scanner000Call == fnCall.fn = "Scanner000"

InWrite == {i \in 1..MaxCandidates : fnCall.g[i].pc = "write"}
SlotsTaken == {i \in 1..MaxCandidates : fnCall.g[i].pc \in {"check", "write"}}

\* menu choice 2: parseIPs, os.Create(OllamaOutputFile) and the header
DtStart ==
  /\ Scanner000Call /\ fnCall.pc = "menu" /\ fnCall.ollama = <<>>
  /\ fnCall' = [fnCall EXCEPT !.pc = "detect",
                              !.ollama = <<<<"IP", "Port", "Status">>>>]
  /\ UNCHANGED notFn

\* workerPool <- struct{}{}, wg.Add(1), go func(ip)
DtSpawn ==
  /\ Scanner000Call /\ fnCall.pc = "detect" /\ fnCall.next <= fnCall.n
  /\ Cardinality(SlotsTaken) < maxWorkers
  /\ fnCall' = [fnCall EXCEPT !.next = @ + 1, !.g[fnCall.next].pc = "check"]
  /\ UNCHANGED notFn

\* s.checkOllama(ip), and the goroutine enters writer.Write
DtWriteBegin(i) ==
  /\ Scanner000Call /\ fnCall.g[i].pc = "check"
  /\ \E up \in BOOLEAN :
       fnCall' = [fnCall EXCEPT
         !.g = [j \in 1..MaxCandidates |->
                  IF j = i THEN [pc |-> "write", up |-> up, raced |-> InWrite # {}]
                  ELSE IF j \in InWrite THEN [fnCall.g[j] EXCEPT !.raced = TRUE]
                  ELSE fnCall.g[j]],
         !.overlapped = @ \/ InWrite # {}]
  /\ UNCHANGED notFn

\* writer.Write returns, then <-workerPool and wg.Done()
DtWriteEnd(i) ==
  /\ Scanner000Call /\ fnCall.g[i].pc = "write"
  /\ \E w \in (IF fnCall.g[i].raced
                 THEN RacedWrites(ServiceRecord(Addr(i), fnCall.g[i].up))
                 ELSE {<<ServiceRecord(Addr(i), fnCall.g[i].up)>>}) :
       fnCall' = [fnCall EXCEPT !.g[i].pc = "done", !.ollama = @ \o w]
  /\ UNCHANGED notFn

\* wg.Wait(), the deferred writer.Flush() and csvFile.Close(), return nil
DtReturn ==
  /\ Scanner000Call /\ fnCall.pc = "detect" /\ fnCall.next > fnCall.n
  /\ \A i \in 1..MaxCandidates : fnCall.g[i].pc \in {"none", "done"}
  /\ fnCall' = [fnCall EXCEPT !.pc = "menu"]
  /\ UNCHANGED notFn

\* menu choice 3: the header of OllamaOutputFile is read, OutputFile is
\* created and its header handed to the local writer
BkStart ==
  /\ Scanner000Call /\ fnCall.pc = "menu" /\ fnCall.ollama # <<>>
  /\ fnCall' = [fnCall EXCEPT !.pc = "read", !.next = 2,
                  !.out = <<<<"IP", "Port", "Model", "Status",
                             "FirstTokenDelay(ms)", "Tokens/s">>>>]
  /\ UNCHANGED notFn

BkRecord == fnCall.ollama[fnCall.next]

\* reader.Read() gives a record of the header's length; it is passed over
\* unless record[2] reports the service, and processModels returns at once
\* when getModels lists nothing
BkRead ==
  /\ Scanner000Call /\ fnCall.pc = "read" /\ fnCall.next <= Len(fnCall.ollama)
  /\ Len(BkRecord) = 3
  /\ \E models \in Catalogs :
       fnCall' = [fnCall EXCEPT !.next = @ + 1,
                    !.pc = IF BkRecord[3] = ServiceStatus(TRUE) /\ models # <<>>
                             THEN "models" ELSE "read",
                    !.models = IF BkRecord[3] = ServiceStatus(TRUE)
                                 THEN [j \in 1..Len(models) |-> <<BkRecord[1], models[j]>>]
                                 ELSE <<>>,
                    !.k = 1]
  /\ UNCHANGED notFn

\* processModels: benchmarkModel of the k-th model and s.resultsChan <- *result,
\* which goes through while the channel holds fewer than cfg.MaxWorkers*2
BkSend ==
  /\ Scanner000Call /\ fnCall.pc = "models"
  /\ Len(fnCall.chan) < 2 * maxWorkers
  /\ fnCall' = [fnCall EXCEPT !.chan = Append(@, fnCall.models[fnCall.k]),
                  !.produced = Append(@, fnCall.models[fnCall.k]),
                  !.k = @ + 1,
                  !.pc = IF fnCall.k = Len(fnCall.models) THEN "read" ELSE "models"]
  /\ UNCHANGED notFn

\* reader.Read() fails (end of file, or a record of another length): break,
\* return nil, and the deferred writer.Flush() and resultFile.Close()
BkReadFails ==
  \/ fnCall.next > Len(fnCall.ollama)
  \/ fnCall.next <= Len(fnCall.ollama) /\ Len(fnCall.ollama[fnCall.next]) # 3

BkReturn ==
  /\ Scanner000Call /\ fnCall.pc = "read" /\ BkReadFails
  /\ fnCall' = [fnCall EXCEPT !.pc = "returned"]
  /\ UNCHANGED notFn

DtGoroutine == \E i \in 1..MaxCandidates : DtWriteBegin(i) \/ DtWriteEnd(i)

NextScanner000 ==
  DtStart \/ DtSpawn \/ DtGoroutine \/ DtReturn \/ BkStart \/ BkRead \/ BkSend \/ BkReturn

SpecScanner000 == InitScanner000 /\ [][NextScanner000]_vars

\* ------------------------------------------------------------ the menu of main.go
\* The menu loop of main.go running the "start scan" entry more than once in
\* one process.  The files are kept by path; a file is the sequence of its
\* lines, a line of the sweep and a CSV record taken to fill one place each.
\* resultsChan is the channel init made; nothing makes another one.
MaxRuns == 2

\* inputFile and outputFile of the configuration
InputFilePath == "ip.txt"
OutputFilePath == "results.csv"

\* the path initCSVWriter creates, the path zmap gets with -o, and the
\* path countIPs and processResults open: outputFile, all three
CsvPath == OutputFilePath
SweepPath == OutputFilePath
CandidatePath == OutputFilePath

\* what the sweep may write: lines that are addresses or not
SweepLines == {"10.0.0.1", "10.0.0.2", "not-an-ip"}
SweepOutputs == UNION {[1..n -> SweepLines] : n \in 0..MaxCandidates}

\* a write of records at the offset pos of a file handle: the places from
\* pos on are overwritten, the file grows when the write goes past its end
WriteAt(content, pos, records) ==
  [i \in 1..(IF Len(content) > pos + Len(records) THEN Len(content)
             ELSE pos + Len(records)) |->
     IF i > pos /\ i <= pos + Len(records) THEN records[i - pos] ELSE content[i]]

\* the record writeCSV builds for an address that answered
MenuRecord(ip) ==
  Record(ip, [Name |-> "llama3:8b", Status |-> "success",
              FirstTokenDelay |-> 120, TokensPerSec |-> 50], FALSE)

InitMenu ==
  /\ prog = "menu" /\ maxWorkers \in 1..MaxWorkers /\ disableBench = FALSE
  /\ portScanOnly \in BOOLEAN /\ nCand = 0
  /\ ScanInit /\ CheckIdle /\ BenchIdle /\ BatchIdle /\ RebenchIdle /\ IpIdle
  /\ fnCall = [fn |-> "menu", pc |-> "menu", runs |-> 0,
               files |-> [p \in {InputFilePath, OutputFilePath} |->
                            IF p = InputFilePath THEN <<"10.0.0.0/24">> ELSE <<>>],
               csvPos |-> 0, csvBuf |-> <<>>, swept |-> <<>>, todo |-> <<>>,
               chan |-> <<>>, closed |-> FALSE, panic |-> "none"]

MenuCall == fnCall.fn = "menu"

\* menu entry 3, startScan: initCSVWriter creates the file of CsvPath and
\* hands the header to csvWriter
MnStartScan ==
  /\ MenuCall /\ fnCall.pc = "menu" /\ fnCall.runs < MaxRuns
  /\ fnCall' = [fnCall EXCEPT !.pc = "execZmap", !.runs = @ + 1,
                  !.files[CsvPath] = <<>>, !.csvPos = 0,
                  !.csvBuf = <<Headers(FALSE)>>, !.swept = <<>>]
  /\ UNCHANGED notFn

\* execZmap: the sweep fails, or writes its lines to the file of SweepPath
MnExecZmap ==
  /\ MenuCall /\ fnCall.pc = "execZmap"
  /\ \/ fnCall' = [fnCall EXCEPT !.pc = "menu"]
     \/ \E out \in SweepOutputs :
          fnCall' = [fnCall EXCEPT !.pc = "countIPs", !.files[SweepPath] = out,
                                   !.swept = out]
  /\ UNCHANGED notFn

\* countIPs(outputFile); runScanProcess returns when it finds no address
\* or portScanOnly is set, else processResults opens the file of
\* CandidatePath, starts the workers, resultHandler and the feeder
MnCountIPs ==
  /\ MenuCall /\ fnCall.pc = "countIPs"
  /\ LET found == ValidAddresses(fnCall.files[CandidatePath])
     IN fnCall' = [fnCall EXCEPT
                     !.pc = IF found = <<>> \/ portScanOnly THEN "menu"
                            ELSE "processResults",
                     !.todo = IF found = <<>> \/ portScanOnly THEN <<>> ELSE found]
  /\ UNCHANGED notFn

\* processBatch on the next address: nothing answers, or a ScanResult is
\* sent on resultsChan, which panics when the channel is closed
MnBatch ==
  /\ MenuCall /\ fnCall.pc = "processResults" /\ fnCall.todo # <<>>
  /\ \/ fnCall' = [fnCall EXCEPT !.todo = Tail(@)]
     \/ /\ ~fnCall.closed /\ Len(fnCall.chan) < 2 * maxWorkers
        /\ fnCall' = [fnCall EXCEPT !.todo = Tail(@),
                                    !.chan = Append(@, Head(fnCall.todo))]
     \/ /\ fnCall.closed
        /\ fnCall' = [fnCall EXCEPT !.pc = "panic",
                                    !.panic = "send on closed channel"]
  /\ UNCHANGED notFn

\* resultHandler: a ScanResult is received and writeCSV hands its record
\* to csvWriter
MnHandle ==
  /\ MenuCall /\ fnCall.chan # <<>> /\ fnCall.pc # "panic"
  /\ fnCall' = [fnCall EXCEPT !.chan = Tail(@),
                              !.csvBuf = Append(@, MenuRecord(Head(fnCall.chan)))]
  /\ UNCHANGED notFn

\* wg.Wait() and close(resultsChan), which panics when the channel is closed
MnClose ==
  /\ MenuCall /\ fnCall.pc = "processResults" /\ fnCall.todo = <<>>
  /\ fnCall' = IF fnCall.closed
                 THEN [fnCall EXCEPT !.pc = "panic", !.panic = "close of closed channel"]
                 ELSE [fnCall EXCEPT !.pc = "flush", !.closed = TRUE]
  /\ UNCHANGED notFn

\* csvWriter.Flush(): the buffered records go to the file of CsvPath at the
\* offset of csvFile
MnFlush ==
  /\ MenuCall /\ fnCall.pc = "flush"
  /\ fnCall' = [fnCall EXCEPT !.pc = "saved",
                  !.files[CsvPath] = WriteAt(@, fnCall.csvPos, fnCall.csvBuf),
                  !.csvPos = @ + Len(fnCall.csvBuf), !.csvBuf = <<>>]
  /\ UNCHANGED notFn

\* processResults returns nil, startScan closes csvFile, back in the menu
MnReturn ==
  /\ MenuCall /\ fnCall.pc = "saved"
  /\ fnCall' = [fnCall EXCEPT !.pc = "menu"]
  /\ UNCHANGED notFn

NextMenu ==
  MnStartScan \/ MnExecZmap \/ MnCountIPs \/ MnBatch \/ MnHandle \/ MnClose
    \/ MnFlush \/ MnReturn

SpecMenu == InitMenu /\ [][NextMenu]_vars

\* ------------------------------------------------------------ properties
hdr == Headers(disableBench)

\* the records a ScanResult becomes in writeCSV, in order
RowsOf(res) == [i \in 1..Len(res.Models) |-> Record(res.IP, res.Models[i], disableBench)]

Range(s) == {s[i] : i \in 1..Len(s)}

\* candidates whose pipeline is executing: a worker inside processBatch
\* (main.go), a task between acquiring and releasing its slot (part_001)
InFlight ==
  IF prog = "main"
    THEN Cardinality({w \in WorkerIds : workers[w].pc \in {"batch", "probe"}})
    ELSE SlotsHeld

\* C1: at every instant the number of candidates whose probing pipeline is
\* executing is at most the worker limit maxWorkers, in processResults of
\* main.go and in WorkerPool.Submit of part_001.
C1_InFlightBounded == InFlight <= maxWorkers

\* C1 witness: with a limit above one, as many pipelines as the limit allows
\* are probing at the same instant
C1_Witness ==
  /\ prog = "main" /\ maxWorkers = MaxWorkers /\ MaxWorkers > 1
  /\ Cardinality({w \in WorkerIds : workers[w].pc = "probe"}) = maxWorkers

\* C2: in main.go no candidate address has more than one ScanResult sent on
\* resultsChan, and the number of ScanResults sent (hence received by
\* resultHandler) is at most the number of valid address lines.
C2_AtMostOnePerCandidate ==
  prog = "main" =>
    /\ \A i, j \in 1..Len(emitted) : emitted[i].IP = emitted[j].IP => i = j
    /\ Len(emitted) <= nCand

\* C2 witness: every candidate of a file with several lines got its result
C2_Witness ==
  /\ prog = "main" /\ nCand = MaxCandidates /\ MaxCandidates > 1
  /\ Len(emitted) = nCand
  /\ rhPc = "done"

\* C3: in main.go every ScanResult sent for an address carries exactly one
\* ModelInfo per model of that address's sorted catalog, in that order, and
\* none that was produced for another address.
C3_OnlyOwnModels ==
  prog = "main" =>
    \A i \in 1..Len(emitted) :
      /\ [k \in 1..Len(emitted[i].Models) |-> emitted[i].Models[k].Name] = emitted[i].cat
      /\ \A k \in 1..Len(emitted[i].Models) : emitted[i].Models[k].for = emitted[i].IP

\* C4: when processResults has returned and the run was not cancelled, the
\* rows of every ScanResult sent on resultsChan are in the file, after the
\* header, and resultHandler has nothing left to write.
C4_AllWrittenWhenProcessResultsReturns ==
  (Running /\ mainPc \in {"return", "returned"} /\ resultsClosed /\ sigAt = "") =>
    /\ resultsChan = <<>> /\ rhPc \in {"range", "done"}
    /\ \A i \in 1..Len(emitted) : Range(RowsOf(emitted[i])) \subseteq Range(fileRows)

\* C5: when the signal arrived while processResults of main.go was running
\* and the process exited through the handler, the file holds the header
\* followed by the rows of every ScanResult sent before the signal, and no
\* row is torn.
C5_FileCompleteAtSignalExit ==
  (prog = "main" /\ exitStatus = "exit1" /\ sigPc = "exited"
     /\ sigAt = "processResults" /\ csvWriter = "open") =>
    /\ fileRows # <<>> /\ fileRows[1] = hdr
    /\ \A i \in 1..emittedAtSignal : Range(RowsOf(emitted[i])) \subseteq Range(fileRows)
    /\ ~torn

\* C6: in main.go no two goroutines are inside an operation on csvWriter at
\* the same instant (Write in resultHandler, Flush in processResults, Flush
\* in the signal goroutine).
C6_SingleWriter == prog = "main" => Cardinality(OnCsvWriter) <= 1

\* the records handed to csvWriter so far, in order
Written == fileRows \o csvBuf

\* C7: in main.go the stream of records written to csvWriter during a run
\* starts with the header written by initCSVWriter, and the header occurs
\* nowhere else in it: every later record is a data row.
C7_HeaderOnceAndFirst ==
  (prog = "main" /\ csvWriter = "open") =>
    /\ Running /\ ~csvErr => Written # <<>>
    /\ Written # <<>> => Written[1] = hdr
    /\ \A i \in 2..Len(Written) : Written[i] # hdr

\* C7 witness: data rows of two hosts were written after the header
C7_Witness ==
  /\ prog = "main" /\ csvWriter = "open" /\ Running
  /\ Len(Written) >= 3 /\ Written[1] = hdr
  /\ \E i, j \in 2..Len(Written) : Written[i][1] # Written[j][1]

\* C8: whenever a startScan run of main.go has ended (startScan returned, or
\* the process exited on a signal), the file starts with the header and
\* holds it exactly once.
C8_HeaderOnDiskAtEnd ==
  (prog = "main" /\ csvWriter = "open"
     /\ (mainPc = "returned" \/ exitStatus \in {"exit0", "exit1"})) =>
    /\ fileRows # <<>> /\ fileRows[1] = hdr
    /\ \A i \in 2..Len(fileRows) : fileRows[i] # hdr

\* C9: resultHandler flushes what it wrote before it goes on: while it writes
\* the rows of one ScanResult, no row of an earlier ScanResult is still
\* unflushed in csvWriter.
C9_FlushedInSmallBatches ==
  (prog = "main" /\ Running /\ rhPc = "write") =>
    \A i \in 1..Len(csvBuf) : csvBuf[i] = hdr \/ csvBuf[i][1] = rhRes.IP

\* C10: the signal goroutine calls cancel(), then csvWriter.Flush() when
\* csvWriter is non-nil, then os.Exit(1): it is past the flush only with the
\* context cancelled, and it exits only past the flush; the process ends
\* with status 1 only through the handler (or, in part_001, when startScan
\* failed), so a run that completed without error and without a signal ends
\* with status 0.
C10_CancelFlushExit ==
  /\ sigPc \in {"cancelled", "exit", "exited"} => ctxCancelled
  /\ sigPc \in {"exit", "exited"} => (csvWriter # "nil" => sigFlushed)
  /\ sigPc = "exited" => exitStatus = "exit1"
  /\ (exitStatus = "exit1" /\ sigPc # "exited") => (prog = "pool" /\ scanErr)

\* C10 witness: the process exited with status 1 through the handler after
\* its Flush had put the header and rows into the file
C10_Witness ==
  /\ exitStatus = "exit1" /\ sigPc = "exited" /\ sigFlushed /\ ctxCancelled
  /\ sigAt = "processResults" /\ Len(fileRows) >= 2

C13_CheckNeverStuck ==
  (ckPc \in {"send", "results"} /\ ~ckCancelled) => ENABLED CkStep

\* ------------------------------------------------------------ processBatch, benchmarkModel
CallIds == 1..Len(pbCalls)
SentIds == 1..Len(pbSent)
BenchCalls == {i \in CallIds : pbCalls[i].fn = "benchmarkModel"}

\* C14: once the scan context has been cancelled, processBatch issues no
\* further checkOllama, getModels or benchmarkModel call, and no checkPort
\* call other than the one that follows a context check made just before the
\* cancellation.
C14_NoRequestAfterCancel ==
  prog = "batch" => \A i \in CallIds : pbCalls[i].late => pbCalls[i].fn = "checkPort"

\* the call says that the candidate is not a usable Ollama host
Dead(c) ==
  \/ c.fn \in {"checkPort", "checkOllama"} /\ ~c.ok
  \/ c.fn = "getModels" /\ Len(c.models) = 0

\* C15: for a candidate whose checkPort or checkOllama returned false or
\* whose getModels returned an empty list, processBatch sends no ScanResult,
\* so no row carries its address, and issues no benchmark request.
C15_NothingForDeadHost ==
  (prog = "batch" /\ ~portScanOnly) =>
    \A i \in CallIds :
      Dead(pbCalls[i]) =>
        /\ \A j \in SentIds :
             /\ pbSent[j].IP # pbCalls[i].ip
             /\ \A row \in Range(RowsOf(pbSent[j])) : row[1] # pbCalls[i].ip
        /\ \A j \in BenchCalls : pbCalls[j].ip # pbCalls[i].ip

C15_Witness ==
  /\ prog = "batch" /\ ~portScanOnly /\ ~disableBench /\ pbPc = "returned"
  /\ ~pbCancelled /\ Len(pbBatch) > 1
  /\ \E i \in CallIds : pbCalls[i].fn = "getModels" /\ Dead(pbCalls[i])
                          /\ pbCalls[i].ip = pbBatch[1]
  /\ \E j \in SentIds : pbSent[j].IP = pbBatch[2]

\* C16: with disableBench (and not portScanOnly) a host whose catalog lists k
\* models is sent with exactly k models, each a row of the three fields
\* address, model name and the fixed status, no benchmark request is issued
\* and the header has three columns; without disableBench the header and
\* every row have five columns.
C16_RowsPerCatalog ==
  (prog = "batch" /\ ~portScanOnly) =>
    /\ Len(hdr) = IF disableBench THEN 3 ELSE 5
    /\ \A j \in SentIds : \A row \in Range(RowsOf(pbSent[j])) : Len(row) = Len(hdr)
    /\ disableBench =>
         /\ BenchCalls = {}
         /\ \A j \in SentIds :
              /\ \A row \in Range(RowsOf(pbSent[j])) :
                   row[1] = pbSent[j].IP /\ row[3] = "found"
              /\ \A i \in CallIds :
                   (pbCalls[i].fn = "getModels" /\ pbCalls[i].ip = pbSent[j].IP)
                     => Len(RowsOf(pbSent[j])) = Len(pbCalls[i].models)

\* the ModelInfo the ScanResult res holds for the benchmark call c
InfoOf(res, c) ==
  {k \in 1..Len(res.Models) :
     /\ res.Models[k].Name = c.model /\ res.Models[k].for = c.ip
     /\ res.Models[k].Status = c.bench.Status
     /\ res.Models[k].FirstTokenDelay = c.bench.FirstTokenDelay
     /\ res.Models[k].TokensPerSec = c.bench.TokensPerSec}

\* C17: a benchmark request that fails (transport error, or a non-200 status
\* reported as "HTTP c") returns zero latency and zero throughput with that
\* status; the model is a ModelInfo of the host's ScanResult all the same; and
\* a call of processBatch that is not cancelled benchmarks every model of
\* every catalog, sends every such host and probes every address of the batch.
C17_FailureIsLocal ==
  (prog = "batch" /\ ~portScanOnly /\ ~disableBench) =>
    /\ \A i \in BenchCalls :
         pbCalls[i].bench.Status # "success" =>
           /\ pbCalls[i].bench.Status \in {"connection failed", "HTTP 500"}
           /\ pbCalls[i].bench.FirstTokenDelay = 0
           /\ pbCalls[i].bench.TokensPerSec = 0
    /\ \A j \in SentIds : \A i \in BenchCalls :
         pbCalls[i].ip = pbSent[j].IP => InfoOf(pbSent[j], pbCalls[i]) # {}
    /\ (pbPc = "returned" /\ ~pbCancelled) =>
         /\ \A a \in 1..Len(pbBatch) :
              \E i \in CallIds : pbCalls[i].fn = "checkPort" /\ pbCalls[i].ip = pbBatch[a]
         /\ \A i \in CallIds :
              (pbCalls[i].fn = "getModels" /\ ~Dead(pbCalls[i])) =>
                /\ \A m \in Range(pbCalls[i].models) :
                     \E b \in BenchCalls :
                       pbCalls[b].ip = pbCalls[i].ip /\ pbCalls[b].model = m
                /\ \E j \in SentIds : pbSent[j].IP = pbCalls[i].ip

C17_Witness ==
  /\ prog = "batch" /\ ~portScanOnly /\ ~disableBench /\ pbPc = "returned"
  /\ ~pbCancelled /\ Len(pbBatch) > 1 /\ Len(pbSent) = Len(pbBatch)
  /\ Len(pbCalls) > 4
  /\ pbCalls[4].fn = "benchmarkModel" /\ pbCalls[4].bench.Status = "HTTP 500"
  /\ pbCalls[5].fn = "benchmarkModel" /\ pbCalls[5].bench.Status = "success"
  /\ pbCalls[5].ip = pbCalls[4].ip

\* C18: when os.Create fails in initCSVWriter the run goes no further than
\* startScan: execZmap is not followed by any later stage, no worker or task
\* is started, nothing is written to or flushed from csvWriter, and startScan
\* ends with an error.
C18_CreateFailureAborts ==
  (prog \in {"main", "pool"} /\ csvWriter = "nil" /\ mainPc # "startScan") =>
    /\ Running
    /\ mainPc \in {"execZmap", "return", "returned"}
    /\ mainPc \in {"return", "returned"} => scanErr
    /\ \A w \in WorkerIds : workers[w].pc = "off"
    /\ \A c \in CandIds : tasks[c] = "unsubmitted"
    /\ csvBuf = <<>> /\ fileRows = <<>> /\ busy = {}

\* the lines of a 200 answer, and the index of the first one that reports
\* done = true (the number of lines when none does)
DoneAt(lines) ==
  IF \E i \in 1..Len(lines) : lines[i].ok /\ lines[i].done
    THEN CHOOSE i \in 1..Len(lines) :
           /\ lines[i].ok /\ lines[i].done
           /\ \A j \in 1..(i - 1) : ~(lines[j].ok /\ lines[j].done)
    ELSE Len(lines)

Streamed ==
  prog = "bench" /\ bmPc = "returned" /\ ~disableBench /\ ~bmResp.err
    /\ bmResp.code = 200

\* C19: for a 200 answer benchmarkModel increments tokenCount once for every
\* line it reads and stops reading at the first line that reports done = true
\* or at the end of the stream: when line k is the first done line,
\* tokenCount = k and no line after line k is read.
C19_CountsLinesUntilDone ==
  Streamed =>
    /\ bmRet.tokenCount = DoneAt(bmResp.lines)
    /\ bmRet.read = DoneAt(bmResp.lines)

C19_Witness ==
  /\ Streamed /\ bmResp.lines = <<TokenLine, LastTokenLine, TokenLine>>
  /\ bmRet.tokenCount = 2 /\ bmRet.read = 2 /\ bmRet.Status = "success"

\* C20: the first-token latency benchmarkModel returns is the arrival time,
\* counted from the start taken before the request is sent, of the first
\* line read that carries a non-empty token fragment.
C20_LatencyOfFirstFragment ==
  Streamed =>
    \A i \in 1..bmRet.read :
      (bmResp.lines[i].frag /\ \A j \in 1..(i - 1) : ~bmResp.lines[j].frag)
        => bmRet.FirstTokenDelay = ArrivalMs(i)

\* ------------------------------------------------------------ benchmarkModel, the variants
TimedSuccess == prog \in BenchVariants /\ bmPc = "returned" /\ bmRet.Status = "success"

\* C21: a variant that reports success reports as first-token latency the
\* time of the first line counted from the request start (which is >= 0), and
\* divides the token count by the time from the first line to the last.
C21_LatencyAndGenerationTime ==
  TimedSuccess =>
    /\ bmRet.FirstTokenDelay = ArrivalMs(1)
    /\ bmRet.FirstTokenDelay >= 0
    /\ bmRet.elapsed = ArrivalMs(bmRet.read) + bmResp.tick - ArrivalMs(1)

\* C22: in main.go and part_000, when at least one line was read the rate is
\* finite and >= 0, and an elapsed time of zero gives the zero-interval
\* status with rate 0.
C22_NoDivisionByZero ==
  (prog \in {"bench", "bench000"} /\ bmPc = "returned" /\ bmRet.read > 0) =>
    /\ bmRet.finite /\ bmRet.TokensPerSec >= 0
    /\ bmRet.elapsed = 0 =>
         bmRet.Status = "zero time interval" /\ bmRet.TokensPerSec = 0

\* C23: in main.go a body whose read fails on the timeout after at least one
\* line and before any done line is not reported with the success status.
C23_TimeoutIsNotSuccess ==
  (prog = "bench" /\ bmPc = "returned" /\ ~bmResp.err /\ bmResp.code = 200
     /\ bmResp.cut /\ bmResp.lines # <<>>
     /\ \A i \in 1..Len(bmResp.lines) : ~StopsAt(bmResp.lines[i]))
    => bmRet.Status # "success"

\* ------------------------------------------------------------ benchmarkModel(ctx)
Entries == 0..(rb.n - 1)
RebenchDone == rb.pc = "returned" /\ rb.backup = "removed" /\ ~rb.cancelled

\* C24: in part_003 each available entry is benchmarked at most once and
\* gets at most one row, and exactly one of each when the benchmark has
\* completed without cancellation, for every number of workers.
C24_OncePerEntry ==
  prog = "part_003" =>
    /\ \A i \in Entries : rbHist[i].benched <= 1 /\ rbHist[i].rows <= 1
    /\ RebenchDone => \A i \in Entries : rbHist[i].benched = 1 /\ rbHist[i].rows = 1

\* C27: in part_004 with an uncancelled context no entry is benchmarked or
\* written twice, every worker only takes indices of its own residue class,
\* resultsChan is closed only after all workers have finished, and when the
\* backup file is removed every one of the n entries was benchmarked once,
\* sent and passed to processResult once.
C27_StridedPartition ==
  (prog = "part_004" /\ ~rb.cancelled) =>
    /\ \A i \in Entries : rbHist[i].benched <= 1 /\ rbHist[i].rows <= 1
    /\ \A w \in 1..maxWorkers :
         rbWorkers[w].pc # "off" => rbWorkers[w].j % maxWorkers = w - 1
    /\ rb.closed => \A w \in 1..maxWorkers : rbWorkers[w].pc = "done"
    /\ rb.backup = "removed" =>
         /\ rb.processed = rb.n /\ rb.chan = <<>>
         /\ \A i \in Entries : rbHist[i].benched = 1 /\ rbHist[i].rows = 1

C27_Witness ==
  /\ prog = "part_004" /\ RebenchDone /\ maxWorkers = MaxWorkers /\ MaxWorkers > 1
  /\ rb.n = MaxEntries /\ rb.processed = rb.n
  /\ \A i \in Entries : rbHist[i].benched = 1 /\ rbHist[i].rows = 1

\* ------------------------------------------------------------ getModels, sortModels
\* C25: the model list of a host holds each identifier at most once, holds
\* exactly the identifiers of the catalog, is in non-decreasing order of
\* parseModelSize and is the same sequence at a second fetch of the document.
C25_DedupSortedStable ==
  (prog = "catalog" /\ fnCall.pc = "returned" /\ getModels(fnCall.in) # <<>>) =>
    /\ \A i, j \in 1..Len(fnCall.out) : fnCall.out[i] = fnCall.out[j] => i = j
    /\ Range(fnCall.out) = Range(fnCall.in.models)
    /\ \A i, j \in 1..Len(fnCall.out) :
         i < j => parseModelSize(fnCall.out[i]) <= parseModelSize(fnCall.out[j])
    /\ fnCall.again = fnCall.out

\* ------------------------------------------------------------ benchmarkSingleModel
\* C26: with an uncancelled context, once an object with done = true has been
\* decoded or Decode has returned io.EOF, benchmarkSingleModel attempts no
\* further Decode.
C26_NoDecodeAfterEnd ==
  (prog \in StreamProgs /\ ~fnCall.cancelled) => ~fnCall.late

\* ------------------------------------------------------------ WorkerPool.Submit
\* C28: a task that is still waiting in Submit's select when the context is
\* cancelled never starts to execute afterwards, even when a slot of
\* p.workers is free.
C28_NoStartAfterCancel ==
  [][\A c \in CandIds :
       (prog = "pool" /\ ctxCancelled /\ tasks[c] = "select")
         => tasks'[c] # "running"]_vars

\* ------------------------------------------------------------ processIP (part_000)
\* C29: the Models that printResult and writeCSV read for a record are the
\* Models the record was sent with, whatever later users of the pooled
\* object append.
C29_SentRecordUnaffected ==
  prog = "part_000" =>
    \A i \in 1..Len(ipRh.reads) : ipRh.reads[i].seen = ipRh.reads[i].sent

\* C30: without a signal every submitted candidate is probed and every
\* candidate that passes the port, service and catalog stages has its
\* ScanResult delivered on resultsChan.
C30_EveryCandidateServed ==
  prog = "part_000" =>
    \A c \in TaskIds :
      ipTasks[c].pc = "done" =>
        /\ ipTasks[c].probed
        /\ ipTasks[c].found => ipTasks[c].delivered

\* ------------------------------------------------------------ C31
\* C31: in part_001 the size handed to NewWorkerPool is at least 1, so that
\* while the context is not cancelled a task waiting at the select of Submit
\* can always be admitted or is waiting for a task that holds a slot and
\* will release it: pool.Wait() cannot be left waiting for tasks that no
\* step can move.
C31_PoolAdmits ==
  (prog = "pool001" /\ fnCall.pc \in {"submit", "wait", "returned"}) =>
    /\ fnCall.size >= 1
    /\ (~fnCall.cancelled /\ \E i \in 1..MaxCandidates : fnCall.task[i] = "select")
         => \E i \in 1..MaxCandidates : ENABLED (PlAcquire(i) \/ PlRelease(i))

\* the same holds of the program that assigns the configured value
C31_AssignedPoolAdmits ==
  (prog = "pool000" /\ fnCall.pc \in {"submit", "wait", "returned"}) =>
    /\ fnCall.size >= 1
    /\ (~fnCall.cancelled /\ \E i \in 1..MaxCandidates : fnCall.task[i] = "select")
         => \E i \in 1..MaxCandidates : ENABLED (PlAcquire(i) \/ PlRelease(i))

\* part_001 at pool.Wait() with a task that was submitted, the context not
\* cancelled, and no slot to give
C31_WaitsForever ==
  /\ prog = "pool001" /\ fnCall.pc = "wait" /\ ~fnCall.cancelled
  /\ fnCall.size = 0
  /\ \E i \in 1..MaxCandidates : fnCall.task[i] = "select"

\* ------------------------------------------------------------ C32
\* the time between the first and the last line of the answer, as the clock
\* of the call gives it
Interval == ArrivalMs(bmRet.read) + bmResp.tick - ArrivalMs(1)

\* C32: benchmarkModel of part_001 returns (0, 0, connection failed) on a
\* transport error, (0, 0, "HTTP c") on a status c other than 200, (0, 0, no
\* response) when no line was read, (0, 0, zero time interval) when lines
\* were read and the last time equals the first, and otherwise success with
\* the rate tokenCount / elapsed > 0; success is returned only with
\* tokenCount > 0 and elapsed > 0.
C32_StatusTable ==
  (prog = "bench001" /\ bmPc = "returned") =>
    /\ IF bmResp.err
         THEN /\ bmRet.Status = "connection failed"
              /\ bmRet.FirstTokenDelay = 0 /\ bmRet.TokensPerSec = 0
       ELSE IF bmResp.code # 200
         THEN /\ bmResp.code = 404 => bmRet.Status = "HTTP 404"
              /\ bmResp.code = 500 => bmRet.Status = "HTTP 500"
              /\ bmRet.FirstTokenDelay = 0 /\ bmRet.TokensPerSec = 0
       ELSE IF bmResp.lines = <<>>
         THEN /\ bmRet.Status = "no response" /\ bmRet.tokenCount = 0
              /\ bmRet.FirstTokenDelay = 0 /\ bmRet.TokensPerSec = 0
       ELSE IF Interval = 0
         THEN /\ bmRet.Status = "zero time interval" /\ bmRet.tokenCount > 0
              /\ bmRet.FirstTokenDelay = 0 /\ bmRet.TokensPerSec = 0
       ELSE /\ bmRet.Status = "success"
            /\ bmRet.elapsed = Interval
            /\ bmRet.TokensPerSec = Rate(bmRet.tokenCount, bmRet.elapsed)
            /\ bmRet.TokensPerSec > 0
    /\ bmRet.Status = "success" =>
         bmRet.tokenCount > 0 /\ bmRet.elapsed > 0 /\ bmRet.finite

\* part_001 has returned success for an answer of several lines
C32_Witness ==
  /\ prog = "bench001" /\ bmPc = "returned"
  /\ bmRet.Status = "success" /\ bmRet.tokenCount > 1 /\ bmRet.elapsed > 0

\* ------------------------------------------------------------ C33
BenchmarkReturned == prog = "part_002" /\ fnCall.pc \in {"returned", "exit"}

\* C33: when BenchmarkOllama of part_002 has returned to the menu loop,
\* every result row written to csvWriter, whatever its outcome, has reached
\* the output file: nothing is left in the writer's buffer.
C33_RowsFlushed ==
  BenchmarkReturned =>
    /\ fnCall.buf = <<>>
    /\ fnCall.disk = <<ScannerHeaders("benchmark")>> \o fnCall.written

\* rows that were followed by the row of a success did reach the file
C33_FlushedBySuccess ==
  BenchmarkReturned =>
    \A i \in 1..Len(fnCall.written) :
      (\E k \in i..Len(fnCall.written) : fnCall.written[k][3] = "success")
        => \E d \in 1..Len(fnCall.disk) : fnCall.disk[d] = fnCall.written[i]

\* main has returned with the row of a failed request still in the buffer
C33_RowLost ==
  /\ prog = "part_002" /\ fnCall.pc = "exit"
  /\ fnCall.buf # <<>> /\ fnCall.buf[1][3] = "connection failed"

\* ------------------------------------------------------------ C37
\* C37: every (address, model) row DetectOllama of part_002 wrote to
\* OllamaOutputFile is accepted by the reader of BenchmarkOllama (it has the
\* fields the reader asks for) and is benchmarked with its address and model
\* name.
C37_DetectedRowsBenchmarked ==
  BenchmarkReturned =>
    \A i \in 1..Len(fnCall.detected) :
      /\ Len(fnCall.detected[i]) >= 4
      /\ <<fnCall.detected[i][1], fnCall.detected[i][2]>> \in fnCall.asked

\* what the reader does with the file DetectOllama wrote: no request at all
C37_NothingBenchmarked ==
  (BenchmarkReturned /\ fnCall.ollama[1] = ScannerHeaders("detect")) =>
    fnCall.asked = {} /\ fnCall.written = <<>>

\* DetectOllama wrote rows and BenchmarkOllama has read the file and returned
C37_DetectedThenRead ==
  /\ BenchmarkReturned /\ Len(fnCall.detected) >= 2
  /\ fnCall.next > Len(fnCall.ollama)

\* ------------------------------------------------------------ C34
DetectReturned ==
  prog = "part_000" /\ fnCall.ollama # <<>> /\ fnCall.pc # "detect"

\* C34: in DetectOllama of part_000 with MaxWorkers >= 2 no two goroutines
\* are inside writer.Write at the same time, and when it has returned the
\* file holds after the header exactly one row for each input address.
C34_WritesExclusive ==
  (prog = "part_000" /\ maxWorkers >= 2) =>
    /\ Cardinality(InWrite) <= 1
    /\ DetectReturned =>
         /\ Len(fnCall.ollama) = 1 + fnCall.n
         /\ \A i \in 1..fnCall.n :
              Cardinality({r \in 2..Len(fnCall.ollama) :
                             /\ Len(fnCall.ollama[r]) = 3
                             /\ fnCall.ollama[r][1] = Addr(i)}) = 1

\* with a single slot the writes are one after the other and every address
\* has its row
C34_OneWorkerExclusive ==
  (prog = "part_000" /\ maxWorkers = 1) =>
    /\ Cardinality(InWrite) <= 1
    /\ DetectReturned =>
         /\ Len(fnCall.ollama) = 1 + fnCall.n
         /\ \A i \in 1..fnCall.n :
              \E r \in 2..Len(fnCall.ollama) : fnCall.ollama[r][1] = Addr(i)

\* two goroutines inside writer.Write
C34_Overlap == prog = "part_000" /\ Cardinality(InWrite) >= 2

\* ------------------------------------------------------------ C35
\* C35: BenchmarkOllama of part_000 terminates for every number of (address,
\* model) pairs: processModels is never left at a send that cannot go
\* through; and when it has returned each result processModels produced is
\* exactly one row of the result file after the header.
C35_EveryResultARow ==
  prog = "part_000" =>
    /\ fnCall.pc = "models" => ENABLED BkSend
    /\ fnCall.pc = "returned" =>
         /\ Len(fnCall.out) = 1 + Len(fnCall.produced)
         /\ \A j \in 1..Len(fnCall.produced) :
              /\ fnCall.out[1 + j][1] = fnCall.produced[j][1]
              /\ fnCall.out[1 + j][3] = fnCall.produced[j][2]

\* what the result file holds when the function does return: the header
C35_HeaderOnly ==
  (prog = "part_000" /\ fnCall.pc = "returned") =>
    /\ Len(fnCall.out) = 1
    /\ Len(fnCall.chan) = Len(fnCall.produced)

\* processModels at the send of a result with s.resultsChan full
C35_SendBlocked ==
  /\ prog = "part_000" /\ fnCall.pc = "models"
  /\ Len(fnCall.chan) = 2 * maxWorkers

\* ------------------------------------------------------------ C36
\* C36: in main.go, whatever menu entries are run in one process and however
\* often the scan entry is run, nothing is sent on resultsChan and
\* resultsChan is not closed after it has been closed.
C36_NoUseAfterClose == prog = "menu" => fnCall.panic = "none"

\* the first run of the scan entry uses the channel while it is open
C36_FirstRunOpen == (prog = "menu" /\ fnCall.runs <= 1) => fnCall.panic = "none"

\* the second run of the scan entry has reached a send or the close on the
\* channel the first run closed
C36_SecondRunPanics ==
  /\ prog = "menu" /\ fnCall.runs = 2
  /\ fnCall.panic = "send on closed channel"

\* ------------------------------------------------------------ C38
Sweeping == prog = "menu" /\ fnCall.pc \in {"countIPs", "processResults", "flush", "saved"}

\* C38: in main.go the file processResults reads the candidate addresses
\* from is not the file csvWriter writes: from the end of the sweep to the
\* end of the run the candidate file holds what the sweep wrote, whatever
\* is flushed.
C38_CandidateFileApart ==
  Sweeping =>
    /\ CandidatePath # CsvPath
    /\ fnCall.files[CandidatePath] = fnCall.swept

\* until the flush the list is as the sweep left it
C38_IntactUntilFlush ==
  (prog = "menu" /\ fnCall.pc \in {"countIPs", "processResults", "flush"}) =>
    fnCall.files[CandidatePath] = fnCall.swept

\* the flush has put the header where the first candidate line was
C38_ListOverwritten ==
  /\ prog = "menu" /\ fnCall.pc = "saved" /\ fnCall.swept # <<>>
  /\ fnCall.files[CandidatePath][1] = Headers(FALSE)
  /\ fnCall.files[CandidatePath] # fnCall.swept

====
